---- MODULE Spec2Model ----
(***************************************************************************)
(* Model of the natural-language command interpreter of the ServiceNow MCP *)
(* server (mcp_server_servicenow/nlp.py).                                  *)
(*                                                                         *)
(* A Python str is a sequence of one-character strings.  The patterns the *)
(* code hands to re.search are written as pattern trees and matched by a  *)
(* backtracking matcher that explores the alternatives in the priority    *)
(* order of Python's re module (leftmost start, ordered alternation,      *)
(* greedy and lazy repetition).                                           *)
(***************************************************************************)
EXTENDS Integers, Sequences, FiniteSets, TLC

VARIABLES
    text,      \* the text argument of the call
    pc,        \* "call" before the invocation, "done" after it returned or raised
    locals,    \* the local variables of the invocation when it ended
    result,    \* the value returned, or the error raised
    calls,     \* concurrent callers: the invocation each one runs
    frames,    \* concurrent callers: the local variables of each invocation
    http,      \* the requests sent to the backend and its answers, in order
    auth,      \* the OAuthAuth object: token, refresh_token, token_expiry
    now,       \* the clock read by datetime.now(), in seconds
    backend    \* the records of the backend's script table, in the order created

vars == <<text, pc, locals, result, calls, frames, http, auth, now, backend>>

(***************************************************************************)
(* Characters and the str methods the code uses.                           *)
(***************************************************************************)
LowerLetters == {"a", "b", "c", "d", "e", "f", "g", "h", "i", "j", "k", "l", "m",
                 "n", "o", "p", "q", "r", "s", "t", "u", "v", "w", "x", "y", "z"}

UpperLetters == {"A", "B", "C", "D", "E", "F", "G", "H", "I", "J", "K", "L", "M",
                 "N", "O", "P", "Q", "R", "S", "T", "U", "V", "W", "X", "Y", "Z"}

Digits == {"0", "1", "2", "3", "4", "5", "6", "7", "8", "9"}

\* \s and the characters str.strip() removes
Whitespace == {" ", "\t", "\n", "\r", "\f"}

\* Two characters outside ASCII, each written as one character of the model:
\* the Kelvin sign, whose lower case is k and which is its own upper case, and
\* the long s, whose upper case is S and which is its own lower case.
KelvinSign == "U+212A"

LongS == "U+017F"

\* \w
WordChars == LowerLetters \cup UpperLetters \cup Digits \cup {"_", KelvinSign, LongS}

CasePairs == {<<"A", "a">>, <<"B", "b">>, <<"C", "c">>, <<"D", "d">>, <<"E", "e">>,
              <<"F", "f">>, <<"G", "g">>, <<"H", "h">>, <<"I", "i">>, <<"J", "j">>,
              <<"K", "k">>, <<"L", "l">>, <<"M", "m">>, <<"N", "n">>, <<"O", "o">>,
              <<"P", "p">>, <<"Q", "q">>, <<"R", "r">>, <<"S", "s">>, <<"T", "t">>,
              <<"U", "u">>, <<"V", "v">>, <<"W", "w">>, <<"X", "x">>, <<"Y", "y">>,
              <<"Z", "z">>}

ToLower ==
    [c \in UpperLetters \cup {KelvinSign} |->
        IF c = KelvinSign THEN "k" ELSE (CHOOSE p \in CasePairs : p[1] = c)[2]]

ToUpper ==
    [c \in LowerLetters \cup {LongS} |->
        IF c = LongS THEN "S" ELSE (CHOOSE p \in CasePairs : p[2] = c)[1]]

LowerChar(c) == IF c \in DOMAIN ToLower THEN ToLower[c] ELSE c

UpperChar(c) == IF c \in DOMAIN ToUpper THEN ToUpper[c] ELSE c

\* the character a pattern compiled with re.IGNORECASE compares: the lower
\* case, and s for the long s
Fold(c) == IF c = LongS THEN "s" ELSE LowerChar(c)

fold(s) == [i \in 1..Len(s) |-> Fold(s[i])]

\* str.lower()
lower(s) == [i \in 1..Len(s) |-> LowerChar(s[i])]

\* str.upper()
upper(s) == [i \in 1..Len(s) |-> UpperChar(s[i])]

\* str.strip()
strip(s) ==
    LET keep == {i \in 1..Len(s) : s[i] \notin Whitespace}
    IN  IF keep = {} THEN <<>>
        ELSE SubSeq(s, CHOOSE i \in keep : \A j \in keep : i <= j,
                       CHOOSE i \in keep : \A j \in keep : j <= i)

\* str.startswith(prefix)
startswith(s, prefix) ==
    /\ Len(prefix) <= Len(s)
    /\ SubSeq(s, 1, Len(prefix)) = prefix

(***************************************************************************)
(* Pattern trees.                                                          *)
(***************************************************************************)
Lit(w)           == [t |-> "lit", w |-> w]
Cat(xs)          == [t |-> "cat", xs |-> xs]
Alt(xs)          == [t |-> "alt", xs |-> xs]
Opt(x)           == [t |-> "opt", x |-> x]
\* a character class repeated at least min times, greedy or lazy
Rep(cs, neg, min, greedy) ==
    [t |-> "rep", cs |-> cs, neg |-> neg, min |-> min, greedy |-> greedy]
WordB            == [t |-> "wordb"]
EndOfString      == [t |-> "eos"]
Empty            == Cat(<<>>)

AltLit(ws)       == Alt([k \in 1..Len(ws) |-> Lit(ws[k])])

Spaces0          == Rep(Whitespace, FALSE, 0, TRUE)      \* \s*
Spaces1          == Rep(Whitespace, FALSE, 1, TRUE)      \* \s+
Word1            == Rep(WordChars, FALSE, 1, TRUE)       \* \w+
Digits1          == Rep(Digits, FALSE, 1, TRUE)          \* \d+
OneSpace         == Alt(<<Lit(<<" ">>), Lit(<<"\t">>), Lit(<<"\n">>),
                          Lit(<<"\r">>), Lit(<<"\f">>)>>)  \* \s

(***************************************************************************)
(* The matcher.  A position i in 1..Len(s)+1 stands before character i.   *)
(* Ends(n, s, i) lists, in the order in which a backtracking matcher      *)
(* tries them, the positions at which a match of n started at i can end.  *)
(***************************************************************************)
InClass(c, cs, neg) == (c \in cs) # neg

MatchAt(s, i, w) ==
    /\ i + Len(w) - 1 <= Len(s)
    /\ \A k \in 1..Len(w) : s[i + k - 1] = w[k]

RECURSIVE RunLen(_, _, _, _)
RunLen(cs, neg, s, i) ==
    IF i <= Len(s) /\ InClass(s[i], cs, neg)
    THEN 1 + RunLen(cs, neg, s, i + 1)
    ELSE 0

IsWord(s, i) == i >= 1 /\ i <= Len(s) /\ s[i] \in WordChars

\* \b
WordBoundary(s, i) == IsWord(s, i - 1) # IsWord(s, i)

\* $ without re.MULTILINE: the end of the string, or just before a final newline
AtEnd(s, i) == i = Len(s) + 1 \/ (i = Len(s) /\ s[i] = "\n")

RECURSIVE Flatten(_)
Flatten(ss) == IF ss = <<>> THEN <<>> ELSE Head(ss) \o Flatten(Tail(ss))

RECURSIVE Ends(_, _, _)
RECURSIVE EndsCat(_, _, _, _)
Ends(n, s, i) ==
    CASE n.t = "lit"   -> IF MatchAt(s, i, n.w) THEN <<i + Len(n.w)>> ELSE <<>>
      [] n.t = "rep"   -> LET k == RunLen(n.cs, n.neg, s, i)
                          IN  IF k < n.min THEN <<>>
                              ELSE [a \in 1..(k - n.min + 1) |->
                                      IF n.greedy THEN i + k - (a - 1)
                                                  ELSE i + n.min + (a - 1)]
      [] n.t = "opt"   -> Ends(n.x, s, i) \o <<i>>
      [] n.t = "alt"   -> Flatten([a \in 1..Len(n.xs) |-> Ends(n.xs[a], s, i)])
      [] n.t = "cat"   -> EndsCat(n.xs, 1, s, i)
      [] n.t = "wordb" -> IF WordBoundary(s, i) THEN <<i>> ELSE <<>>
      [] n.t = "eos"   -> IF AtEnd(s, i) THEN <<i>> ELSE <<>>

EndsCat(xs, k, s, i) ==
    IF k > Len(xs) THEN <<i>>
    ELSE LET js == Ends(xs[k], s, i)
         IN  Flatten([a \in 1..Len(js) |-> EndsCat(xs, k + 1, s, js[a])])

\* A pattern with one capturing group: what stands before it, the group, what
\* stands after it.
Pattern(pre, group, post) == [pre |-> pre, group |-> group, post |-> post]

NoMatch == [found |-> FALSE]

\* the first of the group's ends ks, from the b-th on, after which post matches
\* (0 when there is none)
RECURSIVE FirstEnd(_, _, _, _)
FirstEnd(post, s, ks, b) ==
    IF b > Len(ks) THEN 0
    ELSE IF Ends(post, s, ks[b]) # <<>> THEN ks[b]
    ELSE FirstEnd(post, s, ks, b + 1)

\* the first of the group's starts js, from the a-th on, from which the group and
\* post match
RECURSIVE FirstStart(_, _, _, _, _)
FirstStart(p, s, i, js, a) ==
    IF a > Len(js) THEN NoMatch
    ELSE LET k == FirstEnd(p.post, s, Ends(p.group, s, js[a]), 1)
         IN  IF k # 0
             THEN [found |-> TRUE, start |-> i, gstart |-> js[a], gend |-> k]
             ELSE FirstStart(p, s, i, js, a + 1)

\* the first way, in backtracking order, to match p with the match starting at i
MatchFrom(p, s, i) == FirstStart(p, s, i, Ends(p.pre, s, i), 1)

\* re.search(p, s): the match at the leftmost position that has one;
\* with ignorecase (re.IGNORECASE) the patterns, written in lower case, are
\* matched against the lower-cased subject
RECURSIVE SearchFrom(_, _, _)
SearchFrom(p, subj, i) ==
    IF i > Len(subj) + 1 THEN NoMatch
    ELSE LET m == MatchFrom(p, subj, i)
         IN  IF m.found THEN m ELSE SearchFrom(p, subj, i + 1)

search(p, s, ignorecase) == SearchFrom(p, IF ignorecase THEN fold(s) ELSE s, 1)

\* match.group(1)
group1(m, s) == SubSeq(s, m.gstart, m.gend - 1)

(***************************************************************************)
(* Python values: a dict is a function on its keys, a raised exception is  *)
(* a record that carries nothing but the exception.                        *)
(***************************************************************************)
EmptyDict == <<>>

\* d[k] = v
Put(d, k, v) == [x \in (DOMAIN d) \cup {k} |-> IF x = k THEN v ELSE d[x]]

Return(v) == [raised |-> FALSE, value |-> v]

Raise(e, msg) == [raised |-> TRUE, error |-> e, message |-> msg]

NotCalled == [raised |-> FALSE, value |-> <<>>]

\* no OAuthAuth object is in use
NoAuth == <<>>

NoLocals == EmptyDict

(***************************************************************************)
(* NLPProcessor.parse_update_command                                       *)
(***************************************************************************)
\* the pattern with the digits optional
RecordNumberPatternNoDigits ==
    Pattern(Empty, AltLit(<<<<"i", "n", "c">>, <<"p", "r", "b">>, <<"c", "h", "g">>, <<"t", "a", "s", "k">>>>), Empty)

\* r'(INC\d+|PRB\d+|CHG\d+|TASK\d+)'
RecordNumberPattern ==
    Pattern(Empty,
            Alt(<<Cat(<<Lit(<<"i", "n", "c">>), Digits1>>), Cat(<<Lit(<<"p", "r", "b">>), Digits1>>),
                  Cat(<<Lit(<<"c", "h", "g">>), Digits1>>), Cat(<<Lit(<<"t", "a", "s", "k">>), Digits1>>)>>),
            Empty)

\* r'\b(working on|in progress|assign)\b'
InProgressPattern ==
    Pattern(WordB, AltLit(<<<<"w", "o", "r", "k", "i", "n", "g", " ", "o", "n">>, <<"i", "n", " ", "p", "r", "o", "g", "r", "e", "s", "s">>, <<"a", "s", "s", "i", "g", "n">>>>), WordB)

\* r'\b(resolve|resolved|fix|fixed)\b'
ResolvedPattern ==
    Pattern(WordB, AltLit(<<<<"r", "e", "s", "o", "l", "v", "e">>, <<"r", "e", "s", "o", "l", "v", "e", "d">>, <<"f", "i", "x">>, <<"f", "i", "x", "e", "d">>>>), WordB)

\* r'\b(close|closed)\b'
ClosedPattern ==
    Pattern(WordB, AltLit(<<<<"c", "l", "o", "s", "e">>, <<"c", "l", "o", "s", "e", "d">>>>), WordB)

\* (.+?)(?:$|\.(?:\s|$)) : the lazy capture and the sentence terminator
LazyText == Rep({"\n"}, TRUE, 1, FALSE)

Terminator ==
    Alt(<<EndOfString, Cat(<<Lit(<<".">>), Alt(<<OneSpace, EndOfString>>)>>)>>)

\* (?:s|)\s*:?\s*
MarkerTail == <<Alt(<<Lit(<<"s">>), Empty>>), Spaces0, Opt(Lit(<<":">>)), Spaces0>>

\* the pattern with a greedy capture: (.+) for (.+?)
CommentPatternGreedy ==
    Pattern(Cat(<<AltLit(<<<<"s", "a", "y", "i", "n", "g">>, <<"c", "o", "m", "m", "e", "n", "t">>, <<"n", "o", "t", "e">>, <<"w", "i", "t", "h", " ", "c", "o", "m", "m", "e", "n", "t">>,
                           <<"w", "i", "t", "h", " ", "n", "o", "t", "e">>>>)>> \o MarkerTail),
            Rep({"\n"}, TRUE, 1, TRUE), Terminator)

\* r'(?:saying|comment|note|with comment|with note)(?:s|)\s*:?\s*(.+?)(?:$|\.(?:\s|$))'
CommentPattern ==
    Pattern(Cat(<<AltLit(<<<<"s", "a", "y", "i", "n", "g">>, <<"c", "o", "m", "m", "e", "n", "t">>, <<"n", "o", "t", "e">>, <<"w", "i", "t", "h", " ", "c", "o", "m", "m", "e", "n", "t">>,
                           <<"w", "i", "t", "h", " ", "n", "o", "t", "e">>>>)>> \o MarkerTail),
            LazyText, Terminator)

\* the pattern without its word boundaries
WorkNotePatternNoBoundary ==
    Pattern(Empty, AltLit(<<<<"w", "o", "r", "k", " ", "n", "o", "t", "e">>, <<"i", "n", "t", "e", "r", "n", "a", "l">>, <<"p", "r", "i", "v", "a", "t", "e">>>>), Empty)

\* r'\b(work note|internal|private)\b'
WorkNotePattern ==
    Pattern(WordB, AltLit(<<<<"w", "o", "r", "k", " ", "n", "o", "t", "e">>, <<"i", "n", "t", "e", "r", "n", "a", "l">>, <<"p", "r", "i", "v", "a", "t", "e">>>>), WordB)

\* r'(?:with resolution|resolution|close note|resolve with)(?:s|)\s*:?\s*(.+?)(?:$|\.(?:\s|$))'
ClosePattern ==
    Pattern(Cat(<<AltLit(<<<<"w", "i", "t", "h", " ", "r", "e", "s", "o", "l", "u", "t", "i", "o", "n">>, <<"r", "e", "s", "o", "l", "u", "t", "i", "o", "n">>, <<"c", "l", "o", "s", "e", " ", "n", "o", "t", "e">>,
                           <<"r", "e", "s", "o", "l", "v", "e", " ", "w", "i", "t", "h">>>>)>> \o MarkerTail),
            LazyText, Terminator)

SolvedPermanently == <<"S", "o", "l", "v", "e", "d", " ", "(", "P", "e", "r", "m", "a", "n", "e", "n", "t", "l", "y", ")">>

IsClosingAlways(updates) == TRUE

\* "state" in updates and updates["state"] in [6, 7]
IsClosing(updates) == "state" \in DOMAIN updates /\ updates["state"] \in {6, 7}

\* the local variables of a call of parse_update_command, none bound yet
UpdateFrame ==
    [number_match |-> NoMatch, record_number |-> <<>>,
     comment_match |-> NoMatch, updates |-> EmptyDict]

\* Extract record number
FindRecordNumber(command, l) ==
    LET number_match == search(RecordNumberPattern, command, TRUE)
    IN  IF ~number_match.found
        THEN [l EXCEPT !.number_match = number_match]
        ELSE [l EXCEPT !.number_match = number_match,
                       !.record_number = upper(group1(number_match, command)),
                       !.updates = EmptyDict]

\* the three branches tried in the other order
CheckStateChangeClosedFirst(command, l) ==
    IF search(ClosedPattern, command, TRUE).found
    THEN [l EXCEPT !.updates = Put(@, "state", 7)]
    ELSE IF search(ResolvedPattern, command, TRUE).found
    THEN [l EXCEPT !.updates = Put(@, "state", 6)]
    ELSE IF search(InProgressPattern, command, TRUE).found
    THEN [l EXCEPT !.updates = Put(@, "state", 2)]
    ELSE l

\* Check for state changes
CheckStateChange(command, l) ==
    IF search(InProgressPattern, command, TRUE).found
    THEN [l EXCEPT !.updates = Put(@, "state", 2)]
    ELSE IF search(ResolvedPattern, command, TRUE).found
    THEN [l EXCEPT !.updates = Put(@, "state", 6)]
    ELSE IF search(ClosedPattern, command, TRUE).found
    THEN [l EXCEPT !.updates = Put(@, "state", 7)]
    ELSE l

\* Extract comments or work notes
ExtractComment(command, l) ==
    LET comment_match == search(CommentPattern, command, TRUE)
    IN  IF comment_match.found
        THEN LET comment_text == strip(group1(comment_match, command))
             IN  IF search(WorkNotePattern, command, TRUE).found
                 THEN [l EXCEPT !.comment_match = comment_match,
                                !.updates = Put(@, "work_notes", comment_text)]
                 ELSE [l EXCEPT !.comment_match = comment_match,
                                !.updates = Put(@, "comments", comment_text)]
        ELSE [l EXCEPT !.comment_match = comment_match]

\* the resolution is searched for in what the note step left of the command
ExtractCloseNotesOfRest(command, l) ==
    LET rest == IF l.comment_match.found
                THEN SubSeq(command, 1, l.comment_match.gstart - 1)
                ELSE command
    IN  IF IsClosing(l.updates)
        THEN LET close_match == search(ClosePattern, rest, TRUE)
             IN  IF close_match.found
                 THEN [l EXCEPT !.updates =
                           Put(Put(@, "close_notes", strip(group1(close_match, rest))),
                               "close_code", SolvedPermanently)]
                 ELSE l
        ELSE l

\* Extract close notes if closing
ExtractCloseNotes(command, l) ==
    IF IsClosing(l.updates)
    THEN LET close_match == search(ClosePattern, command, TRUE)
         IN  IF close_match.found
             THEN [l EXCEPT !.updates =
                       Put(Put(@, "close_notes", strip(group1(close_match, command))),
                           "close_code", SolvedPermanently)]
             ELSE l
    ELSE l

\* the local variables of parse_update_command when it ends
UpdateLocals(command) ==
    LET l == FindRecordNumber(command, UpdateFrame)
    IN  IF ~l.number_match.found
        THEN l
        ELSE ExtractCloseNotes(command,
                 ExtractComment(command, CheckStateChange(command, l)))

\* how parse_update_command ends: the raise of line 108 or the return of line 140
UpdateOutcome(l) ==
    IF ~l.number_match.found
    THEN Raise("ValueError", <<"N", "o", " ", "r", "e", "c", "o", "r", "d", " ", "n", "u", "m", "b", "e", "r", " ", "f", "o", "u", "n", "d", " ", "i", "n", " ", "c", "o", "m", "m", "a", "n", "d">>)
    ELSE Return(<<l.record_number, l.updates>>)

parse_update_command(command) == UpdateOutcome(UpdateLocals(command))

(***************************************************************************)
(* NLPProcessor.parse_search_query                                         *)
(***************************************************************************)
\* r'(incidents?|problems?|changes?|tasks?|users?|groups?)'
TablePattern ==
    Pattern(Empty,
            Alt(<<Cat(<<Lit(<<"i", "n", "c", "i", "d", "e", "n", "t">>), Opt(Lit(<<"s">>))>>),
                  Cat(<<Lit(<<"p", "r", "o", "b", "l", "e", "m">>), Opt(Lit(<<"s">>))>>),
                  Cat(<<Lit(<<"c", "h", "a", "n", "g", "e">>), Opt(Lit(<<"s">>))>>),
                  Cat(<<Lit(<<"t", "a", "s", "k">>), Opt(Lit(<<"s">>))>>),
                  Cat(<<Lit(<<"u", "s", "e", "r">>), Opt(Lit(<<"s">>))>>),
                  Cat(<<Lit(<<"g", "r", "o", "u", "p">>), Opt(Lit(<<"s">>))>>)>>),
            Empty)

\* r'(?:about|related to|regarding|concerning|with|containing)\s+([^\.]+)'
AboutPattern ==
    Pattern(Cat(<<AltLit(<<<<"a", "b", "o", "u", "t">>, <<"r", "e", "l", "a", "t", "e", "d", " ", "t", "o">>, <<"r", "e", "g", "a", "r", "d", "i", "n", "g">>, <<"c", "o", "n", "c", "e", "r", "n", "i", "n", "g">>,
                           <<"w", "i", "t", "h">>, <<"c", "o", "n", "t", "a", "i", "n", "i", "n", "g">>>>), Spaces1>>),
            Rep({"."}, TRUE, 1, TRUE),
            Empty)

\* r'(?:find|search for|show|get|list|display)\s+(?:all|any|)(?:\s+\w+)?\s+(?:\w+\s+)?(.+)'
TermPattern ==
    Pattern(Cat(<<AltLit(<<<<"f", "i", "n", "d">>, <<"s", "e", "a", "r", "c", "h", " ", "f", "o", "r">>, <<"s", "h", "o", "w">>, <<"g", "e", "t">>, <<"l", "i", "s", "t">>,
                           <<"d", "i", "s", "p", "l", "a", "y">>>>),
                  Spaces1,
                  Alt(<<Lit(<<"a", "l", "l">>), Lit(<<"a", "n", "y">>), Empty>>),
                  Opt(Cat(<<Spaces1, Word1>>)),
                  Spaces1,
                  Opt(Cat(<<Word1, Spaces1>>))>>),
            Rep({"\n"}, TRUE, 1, TRUE),
            Empty)

\* r'\b(high|critical)\s+priority\b', r'\b(medium)\s+priority\b', r'\b(low)\s+priority\b'
PriorityPattern(words) ==
    Pattern(WordB, AltLit(words), Cat(<<Spaces1, Lit(<<"p", "r", "i", "o", "r", "i", "t", "y">>), WordB>>))

\* r'\b(new|open)\b', r'\b(in progress|working)\b', r'\b(closed|resolved)\b'
StatePattern(words) == Pattern(WordB, AltLit(words), WordB)

TextQueryOperator == <<"1", "2", "3", "T", "E", "X", "T", "Q", "U", "E", "R", "Y", "3", "2", "1", "=">>

DefaultTableTask == <<"t", "a", "s", "k">>

\* table = "incident"
DefaultTable == <<"i", "n", "c", "i", "d", "e", "n", "t">>

\* sep.join(parts)
RECURSIVE join(_, _)
join(sep, parts) ==
    IF parts = <<>> THEN <<>>
    ELSE IF Len(parts) = 1 THEN parts[1]
    ELSE parts[1] \o sep \o join(sep, Tail(parts))

TableOf(table_type) ==
    IF startswith(table_type, <<"i", "n", "c", "i", "d", "e", "n", "t">>) THEN <<"i", "n", "c", "i", "d", "e", "n", "t">>
    ELSE IF startswith(table_type, <<"p", "r", "o", "b", "l", "e", "m">>) THEN <<"p", "r", "o", "b", "l", "e", "m">>
    ELSE IF startswith(table_type, <<"c", "h", "a", "n", "g", "e">>) THEN <<"c", "h", "a", "n", "g", "e", "_", "r", "e", "q", "u", "e", "s", "t">>
    ELSE IF startswith(table_type, <<"t", "a", "s", "k">>) THEN <<"t", "a", "s", "k">>
    ELSE IF startswith(table_type, <<"u", "s", "e", "r">>) THEN <<"s", "y", "s", "_", "u", "s", "e", "r">>
    ELSE IF startswith(table_type, <<"g", "r", "o", "u", "p">>) THEN <<"s", "y", "s", "_", "u", "s", "e", "r", "_", "g", "r", "o", "u", "p">>
    ELSE DefaultTable

\* the two patterns tried in the other order
SearchTermFindFirst(query) ==
    LET term_match == search(TermPattern, query, TRUE)
    IN  IF term_match.found
        THEN strip(group1(term_match, query))
        ELSE LET about_match == search(AboutPattern, query, TRUE)
             IN  IF about_match.found
                 THEN strip(group1(about_match, query))
                 ELSE <<>>

\* the search term of a query: lines 46-55
SearchTerm(query) ==
    LET about_match == search(AboutPattern, query, TRUE)
    IN  IF about_match.found
        THEN strip(group1(about_match, query))
        ELSE LET term_match == search(TermPattern, query, TRUE)
             IN  IF term_match.found
                 THEN strip(group1(term_match, query))
                 ELSE <<>>

\* the three tiers tried in the other order
PriorityLowFirst(query) ==
    IF search(PriorityPattern(<<<<"l", "o", "w">>>>), query, TRUE).found THEN <<"3">>
    ELSE IF search(PriorityPattern(<<<<"m", "e", "d", "i", "u", "m">>>>), query, TRUE).found THEN <<"2">>
    ELSE IF search(PriorityPattern(<<<<"h", "i", "g", "h">>, <<"c", "r", "i", "t", "i", "c", "a", "l">>>>), query, TRUE).found
    THEN <<"1">>
    ELSE <<>>

\* None is the empty string: the code tests the priority by truth value
Priority(query) ==
    IF search(PriorityPattern(<<<<"h", "i", "g", "h">>, <<"c", "r", "i", "t", "i", "c", "a", "l">>>>), query, TRUE).found THEN <<"1">>
    ELSE IF search(PriorityPattern(<<<<"m", "e", "d", "i", "u", "m">>>>), query, TRUE).found THEN <<"2">>
    ELSE IF search(PriorityPattern(<<<<"l", "o", "w">>>>), query, TRUE).found THEN <<"3">>
    ELSE <<>>

\* the three tiers tried in the other order
StateClosedFirst(query) ==
    IF search(StatePattern(<<<<"c", "l", "o", "s", "e", "d">>, <<"r", "e", "s", "o", "l", "v", "e", "d">>>>), query, TRUE).found THEN <<"7">>
    ELSE IF search(StatePattern(<<<<"i", "n", " ", "p", "r", "o", "g", "r", "e", "s", "s">>, <<"w", "o", "r", "k", "i", "n", "g">>>>), query, TRUE).found
    THEN <<"2">>
    ELSE IF search(StatePattern(<<<<"n", "e", "w">>, <<"o", "p", "e", "n">>>>), query, TRUE).found THEN <<"1">>
    ELSE <<>>

State(query) ==
    IF search(StatePattern(<<<<"n", "e", "w">>, <<"o", "p", "e", "n">>>>), query, TRUE).found THEN <<"1">>
    ELSE IF search(StatePattern(<<<<"i", "n", " ", "p", "r", "o", "g", "r", "e", "s", "s">>, <<"w", "o", "r", "k", "i", "n", "g">>>>), query, TRUE).found
    THEN <<"2">>
    ELSE IF search(StatePattern(<<<<"c", "l", "o", "s", "e", "d">>, <<"r", "e", "s", "o", "l", "v", "e", "d">>>>), query, TRUE).found
    THEN <<"7">>
    ELSE <<>>

\* the local variables of a call of parse_search_query: table = "incident",
\* the others not bound yet
SearchFrame ==
    [table |-> DefaultTable, search_term |-> <<>>, priority |-> <<>>,
     state |-> <<>>]

\* Extract table if specified
ExtractTable(query, l) ==
    LET table_match == search(TablePattern, query, TRUE)
    IN  IF table_match.found
        THEN [l EXCEPT !.table = TableOf(lower(group1(table_match, query)))]
        ELSE l

\* Extract search terms
ExtractSearchTerm(query, l) == [l EXCEPT !.search_term = SearchTerm(query)]

\* the priority looked for in the text without the search term
ExtractPriorityOutsideTerm(query, l) ==
    LET n  == Len(l.search_term)
        at == {i \in 1..(Len(query) - n + 1) :
                  SubSeq(query, i, i + n - 1) = l.search_term}
        i  == IF at = {} \/ n = 0 THEN 0
              ELSE CHOOSE j \in at : \A k \in at : j <= k
    IN  IF i = 0 THEN [l EXCEPT !.priority = Priority(query)]
        ELSE [l EXCEPT !.priority =
                  Priority(SubSeq(query, 1, i - 1) \o SubSeq(query, i + n, Len(query)))]

\* Extract priority if mentioned
ExtractPriority(query, l) == [l EXCEPT !.priority = Priority(query)]

\* Extract state if mentioned
ExtractState(query, l) == [l EXCEPT !.state = State(query)]

\* the local variables of parse_search_query before the query string is built
SearchLocals(query) ==
    ExtractState(query,
        ExtractPriority(query,
            ExtractSearchTerm(query, ExtractTable(query, SearchFrame))))

\* the parts appended in the other order
QueryStringStateFirst(l) ==
    LET query_parts ==
            (IF l.state # <<>> THEN <<<<"s", "t", "a", "t", "e", "=">> \o l.state>> ELSE <<>>)
            \o (IF l.priority # <<>> THEN <<<<"p", "r", "i", "o", "r", "i", "t", "y", "=">> \o l.priority>> ELSE <<>>)
            \o (IF l.search_term # <<>> THEN <<TextQueryOperator \o l.search_term>>
                ELSE <<>>)
    IN  IF query_parts # <<>> THEN join(<<"^">>, query_parts) ELSE <<>>

\* Build the query string
QueryString(l) ==
    LET query_parts ==
            (IF l.search_term # <<>> THEN <<TextQueryOperator \o l.search_term>>
             ELSE <<>>)
            \o (IF l.priority # <<>> THEN <<<<"p", "r", "i", "o", "r", "i", "t", "y", "=">> \o l.priority>> ELSE <<>>)
            \o (IF l.state # <<>> THEN <<<<"s", "t", "a", "t", "e", "=">> \o l.state>> ELSE <<>>)
    IN  IF query_parts # <<>> THEN join(<<"^">>, query_parts) ELSE <<>>

SearchOutcome(l) == Return([table |-> l.table, query |-> QueryString(l), limit |-> 10])

parse_search_query(query) == SearchOutcome(SearchLocals(query))

(***************************************************************************)
(* NLPProcessor.parse_script_update                                        *)
(***************************************************************************)
\* the pattern without the comma: r'@(\S+)'
FilenamePatternNoComma ==
    Pattern(Lit(<<"@">>), Rep(Whitespace, TRUE, 1, TRUE), Empty)

\* r'@([^\s,]+)'
FilenamePattern ==
    Pattern(Lit(<<"@">>), Rep(Whitespace \cup {","}, TRUE, 1, TRUE), Empty)

\* the dict script_types, in its insertion order
script_types ==
    << <<<<"s", "c", "r", "i", "p", "t", " ", "i", "n", "c", "l", "u", "d", "e">>, <<"s", "y", "s", "_", "s", "c", "r", "i", "p", "t", "_", "i", "n", "c", "l", "u", "d", "e">>>>,
       <<<<"b", "u", "s", "i", "n", "e", "s", "s", " ", "r", "u", "l", "e">>, <<"s", "y", "s", "_", "s", "c", "r", "i", "p", "t">>>>,
       <<<<"c", "l", "i", "e", "n", "t", " ", "s", "c", "r", "i", "p", "t">>, <<"s", "y", "s", "_", "s", "c", "r", "i", "p", "t", "_", "c", "l", "i", "e", "n", "t">>>>,
       <<<<"u", "i", " ", "s", "c", "r", "i", "p", "t">>, <<"s", "y", "s", "_", "u", "i", "_", "s", "c", "r", "i", "p", "t">>>>,
       <<<<"u", "i", " ", "a", "c", "t", "i", "o", "n">>, <<"s", "y", "s", "_", "u", "i", "_", "a", "c", "t", "i", "o", "n">>>>,
       <<<<"u", "i", " ", "p", "a", "g", "e">>, <<"s", "y", "s", "_", "u", "i", "_", "p", "a", "g", "e">>>>,
       <<<<"u", "i", " ", "m", "a", "c", "r", "o">>, <<"s", "y", "s", "_", "u", "i", "_", "m", "a", "c", "r", "o">>>>,
       <<<<"s", "c", "h", "e", "d", "u", "l", "e", "d", " ", "j", "o", "b">>, <<"s", "y", "s", "a", "u", "t", "o", "_", "s", "c", "r", "i", "p", "t">>>>,
       <<<<"f", "i", "x", " ", "s", "c", "r", "i", "p", "t">>, <<"s", "y", "s", "_", "s", "c", "r", "i", "p", "t", "_", "f", "i", "x">>>> >>

\* rf"\b{type_name}\b"
TypePattern(type_name) == Pattern(WordB, Lit(type_name), WordB)

\* the loop without its break: the last entry whose phrase the command holds
ScriptTypeNoBreak(command) ==
    LET hits == {k \in 1..Len(script_types) :
                    search(TypePattern(script_types[k][1]), command, TRUE).found}
    IN  IF hits = {} THEN <<"s", "y", "s", "_", "s", "c", "r", "i", "p", "t", "_", "i", "n", "c", "l", "u", "d", "e">>
        ELSE script_types[CHOOSE k \in hits : \A j \in hits : j <= k][2]

\* the for loop with its break: the first entry whose phrase the command holds
ScriptType(command) ==
    LET hits == {k \in 1..Len(script_types) :
                    search(TypePattern(script_types[k][1]), command, TRUE).found}
    IN  IF hits = {} THEN <<"s", "y", "s", "_", "s", "c", "r", "i", "p", "t", "_", "i", "n", "c", "l", "u", "d", "e">>
        ELSE script_types[CHOOSE k \in hits : \A j \in hits : k <= j][2]

\* the local variables of a call of parse_script_update, none bound yet
ScriptFrame == [filename_match |-> NoMatch, filename |-> <<>>, script_type |-> <<>>]

\* Extract filename
ExtractFilename(command, l) ==
    LET filename_match == search(FilenamePattern, command, FALSE)
    IN  IF ~filename_match.found
        THEN [l EXCEPT !.filename_match = filename_match]
        ELSE [l EXCEPT !.filename_match = filename_match,
                       !.filename = group1(filename_match, command)]

\* Extract script type
ExtractScriptType(command, l) == [l EXCEPT !.script_type = ScriptType(command)]

\* the local variables of parse_script_update when it ends
ScriptLocals(command) ==
    LET l == ExtractFilename(command, ScriptFrame)
    IN  IF ~l.filename_match.found THEN l ELSE ExtractScriptType(command, l)

\* how parse_script_update ends: the raise of line 157 or the return of line 185
ScriptOutcome(l) ==
    IF ~l.filename_match.found
    THEN Raise("ValueError", <<"N", "o", " ", "f", "i", "l", "e", "n", "a", "m", "e", " ", "f", "o", "u", "n", "d", " ", "i", "n", " ", "c", "o", "m", "m", "a", "n", "d">>)
    ELSE Return(<<l.filename, l.script_type, <<>> >>)

parse_script_update(command) == ScriptOutcome(ScriptLocals(command))

(***************************************************************************)
(* Callers: each call hands one text to one entry point.                   *)
(***************************************************************************)
\* the longest text a caller builds, in fragments
MaxUpdateFrags == 3

MaxSearchFrags == 3

MaxScriptFrags == 3

RECURSIVE Concat(_)
Concat(fs) == IF fs = <<>> THEN <<>> ELSE Head(fs) \o Concat(Tail(fs))

Sentences(vocab, n) ==
    UNION {{Concat(fs) : fs \in [1..k -> vocab]} : k \in 0..n}

UpdateVocabulary ==
    {<<"C", "l", "o", "s", "e", " ", "I", "N", "C", "1">>, <<"U", "p", "d", "a", "t", "e", " ", "i", "n", "c", "i", "d", "e", "n", "t", " ", "I", "N", "C", "1">>, <<"p", "r", "b">>, <<"7">>,
     <<" ", "s", "a", "y", "i", "n", "g", " ">>, <<" ", "w", "i", "t", "h", " ", "r", "e", "s", "o", "l", "u", "t", "i", "o", "n", ":", " ">>, <<" ", "c", "l", "o", "s", "e", " ", "n", "o", "t", "e", ":">>,
     <<"f", "i", "x", "e", "d", " ", "i", "t">>, <<"w", "o", "r", "k", "i", "n", "g", " ", "o", "n", " ", "i", "t", ".">>, <<"d", "o", "n", "e">>, <<" ", "i", "n", "t", "e", "r", "n", "a", "l">>}

UpdateExamples ==
    {<<"U", "p", "d", "a", "t", "e", " ", "i", "n", "c", "i", "d", "e", "n", "t", " ", "I", "N", "C", "0", "0", "1", "0", "0", "0", "1", " ", "s", "a", "y", "i", "n", "g", " ", "I", "'", "m", " ", "w", "o", "r", "k", "i", "n", "g", " ", "o", "n", " ", "i", "t">>,
     <<"C", "l", "o", "s", "e", " ", "i", "n", "c", "i", "d", "e", "n", "t", " ", "I", "N", "C", "0", "0", "1", "0", "0", "0", "2", " ", "w", "i", "t", "h", " ", "r", "e", "s", "o", "l", "u", "t", "i", "o", "n", ":", " ", "f", "i", "x", "e", "d", " ", "t", "h", "e", " ", "i", "s", "s", "u", "e">>,
     <<"U", "p", "d", "a", "t", "e", " ", "i", "n", "c", "i", "d", "e", "n", "t", " ", "I", "N", "C", "0", "0", "1", "0", "0", "0", "3", " ", "w", "i", "t", "h", " ", "w", "o", "r", "k", " ", "n", "o", "t", "e", ":", " ", "i", "n", "t", "e", "r", "n", "a", "l", " ", "t", "r", "o", "u", "b", "l", "e", "s", "h", "o", "o", "t", "i", "n", "g", " ", "s", "t", "e", "p", "s">>}

\* further commands, one for each way the statements of the function can go
UpdateCases ==
    {<<"c", "l", "o", "s", "e", " ", "t", "a", "s", "U+212A", "1", "2">>, <<"c", "l", "o", "s", "e", " ", "t", "a", "U+017F", "k", "7", " ", "s", "a", "y", "i", "n", "g", " ", "h", "i">>, <<"c", "l", "o", "s", "e", " ", "I", "N", "C", "1", " ", "a", "n", "d", " ", "p", "r", "b", "2", "2">>, <<"x", "i", "n", "c", "1", "2", "p", "r", "b", "3">>,
     <<"I", "N", "C", "1", " ", "a", "s", "s", "i", "g", "n", "e", "d", " ", "t", "o", " ", "m", "e">>, <<"I", "N", "C", "1", " ", "w", "o", "r", "k", "i", "n", "g", " ", "o", "n", " ", "i", "t", ",", " ", "f", "i", "x", "e", "d", " ", "a", "n", "d", " ", "c", "l", "o", "s", "e", "d">>,
     <<"c", "l", "o", "s", "e", "d", " ", "I", "N", "C", "1", " ", "t", "h", "e", "n", " ", "f", "i", "x", "e", "d">>, <<"c", "l", "o", "s", "e", " ", "I", "N", "C", "1", " ", "n", "o", "t", "e">>, <<"c", "l", "o", "s", "e", " ", "I", "N", "C", "1", " ", "n", "o", "t", "e", "s", ":", " ", "a">>,
     <<"I", "N", "C", "1", " ", "s", "a", "y", "i", "n", "g", " ", "h", "i", "\n", "m", "o", "r", "e">>, <<"I", "N", "C", "1", " ", "c", "o", "m", "m", "e", "n", "t", " ", "p", "r", "i", "v", "a", "t", "e", " ", "s", "t", "u", "f", "f">>, <<"I", "N", "C", "1", " ", "s", "a", "y", "i", "n", "g", " ">>,
     <<"I", "N", "C", "1", " ", "w", "o", "r", "U+212A", "i", "n", "g", " ", "o", "n", " ", "i", "t">>, <<"I", "N", "C", "1", " ", "p", "r", "i", "v", "a", "t", "e">>, <<"I", "N", "C", "1", " ", "w", "i", "t", "h", " ", "n", "o", "t", "e", ":", " ", "x", ".", " ", "i", "n", "t", "e", "r", "n", "a", "l">>,
     <<"I", "N", "C", "1", " ", "c", "o", "m", "m", "e", "n", "t", ":", " ", "a", ".", " ", "s", "a", "y", "i", "n", "g", " ", "b">>, <<"C", "l", "o", "s", "e", " ", "I", "N", "C", "1", ":", " ", "f", "i", "x", "e", "d", ",", " ", "s", "t", "i", "l", "l", " ", "w", "o", "r", "k", "i", "n", "g", " ", "o", "n", " ", "i", "t">>,
     <<"C", "H", "G", "5", " ", "i", "n", " ", "p", "r", "o", "g", "r", "e", "s", "s">>, <<"I", "N", "C", "1", " ", "s", "a", "y", "i", "n", "g", " ", "i", "n", "t", "e", "r", "n", "a", "l", "s", " ", "l", "e", "a", "k", "e", "d">>, <<"I", "N", "C", "1", " ", "p", "r", "i", "v", "a", "t", "e", "l", "y", " ", "n", "o", "t", "e", "d">>, <<"T", "a", "s", "k", "9", " ", "r", "e", "s", "o", "l", "v", "e">>,
     <<"c", "l", "o", "s", "e", " ", "I", "N", "C", "1", " ", "c", "l", "o", "s", "e", " ", "n", "o", "t", "e", "s", ":", " ", "d", "o", "n", "e", " ", "i", "n", "t", "e", "r", "n", "a", "l">>, <<"r", "e", "s", "o", "l", "v", "e", "d", " ", "I", "N", "C", "1", " ", "c", "l", "o", "s", "e", " ", "n", "o", "t", "e", " ", "x", ".", " ", "y">>,
     <<"c", "l", "o", "s", "e", " ", "I", "N", "C", "1", " ", "c", "l", "o", "s", "e", " ", "n", "o", "t", "e", ":">>, <<"c", "l", "o", "s", "e", " ", "I", "N", "C", "1", " ", "c", "l", "o", "s", "e", " ", "n", "o", "t", "e", ":", " ", "a", "\n", "b">>}

UpdateCommands ==
    Sentences(UpdateVocabulary, MaxUpdateFrags) \cup UpdateExamples \cup UpdateCases

InitUpdate ==
    /\ text \in UpdateCommands
    /\ pc = "call"
    /\ locals = NoLocals
    /\ result = NotCalled
    /\ calls = <<>>
    /\ frames = <<>>
    /\ http = <<>>
    /\ auth = NoAuth
    /\ now = 0
    /\ backend = <<>>

CallUpdate ==
    /\ pc = "call"
    /\ pc' = "done"
    /\ locals' = UpdateLocals(text)
    /\ result' = UpdateOutcome(locals')
    /\ UNCHANGED <<text, calls, frames, http, auth, now, backend>>

NextUpdate == CallUpdate

SpecUpdate == InitUpdate /\ [][NextUpdate]_vars

SearchVocabulary ==
    {<<"f", "i", "n", "d", " ", "a", "l", "l">>, <<" ", "i", "n", "c", "i", "d", "e", "n", "t", "s">>, <<" ", "u", "s", "e", "r", "s">>, <<" ", "a", "b", "o", "u", "t">>, <<" ", "w", "i", "t", "h">>,
     <<" ", "h", "i", "g", "h", " ", "p", "r", "i", "o", "r", "i", "t", "y">>, <<" ", "o", "p", "e", "n">>, <<".">>, <<"^", "p", "r", "i", "o", "r", "i", "t", "y", "=", "2">>, <<" ", "e", "m", "a", "i", "l">>}

SearchExamples ==
    {<<"f", "i", "n", "d", " ", "a", "l", "l", " ", "i", "n", "c", "i", "d", "e", "n", "t", "s", " ", "a", "b", "o", "u", "t", " ", "e", "m", "a", "i", "l">>,
     <<"s", "e", "a", "r", "c", "h", " ", "f", "o", "r", " ", "u", "s", "e", "r", "s", " ", "r", "e", "l", "a", "t", "e", "d", " ", "t", "o", " ", "a", "d", "m", "i", "n">>,
     <<"s", "h", "o", "w", " ", "m", "e", " ", "a", "l", "l", " ", "i", "n", "c", "i", "d", "e", "n", "t", "s", " ", "w", "i", "t", "h", " ", "h", "i", "g", "h", " ", "p", "r", "i", "o", "r", "i", "t", "y">>,
     <<"f", "i", "n", "d", " ", "a", "l", "l", " ", "i", "n", "c", "i", "d", "e", "n", "t", "s", " ", "i", "n", " ", "p", "r", "o", "g", "r", "e", "s", "s">>,
     <<"f", "i", "n", "d", " ", "a", "l", "l", " ", "i", "n", "c", "i", "d", "e", "n", "t", "s", " ", "a", "b", "o", "u", "t", " ", "e", "m", "a", "i", "l", ".", " ", "I", "t", " ", "i", "s", " ", "u", "r", "g", "e", "n", "t">>}

\* further queries, one for each way the statements of the function can go
SearchCases ==
    {<<"f", "i", "n", "d", " ", "u", "U+017F", "e", "r", "s", " ", "i", "n", " ", "g", "r", "o", "u", "p", "s">>, <<"e", "x", "c", "h", "a", "n", "g", "e", " ", "u", "s", "e", "r", "s">>, <<"p", "r", "o", "b", "l", "e", "m", " ", "w", "i", "t", "h", " ", "u", "s", "e", "r", "s">>,
     <<"h", "i", "g", "h", " ", "c", "p", "u", " ", "i", "n", "c", "i", "d", "e", "n", "t", "s">>, <<"n", "e", "t", "w", "o", "r", "k", "i", "n", "g", " ", "i", "n", "c", "i", "d", "e", "n", "t", "s">>, <<"a", "b", "o", "u", "t", " ", "x", "^", "s", "t", "a", "t", "e", "=", "3">>,
     <<"i", "n", "c", "i", "d", "e", "n", "t", "s", " ", "a", "b", "o", "u", "t", " ", "x", "^">>, <<"l", "i", "s", "t", " ", "a", "l", "l", " ", "i", "n", "c", "i", "d", "e", "n", "t", "s", " ", "n", "e", "w", " ", "a", "n", "d", " ", "c", "l", "o", "s", "e", "d">>, <<"t", "a", "s", "U+212A", "s", " ", "n", "o", "w">>,
     <<"f", "i", "n", "d", " ", "a", "l", "l", " ", "i", "n", "c", "i", "d", "e", "n", "t", "s">>, <<"f", "i", "n", "d", " ", "a", "l", "l", " ", " ", "i", "n", "c", "i", "d", "e", "n", "t", "s">>, <<"g", "e", "t", " ", "a", "l", "l", " ", "u", "s", "e", "r", "s", " ", "a", "d", "m", "i", "n", " ", "t", "e", "a", "m">>,
     <<"s", "h", "o", "w", " ", "m", "e", " ", "o", "p", "e", "n", " ", "t", "a", "s", "k", "s">>, <<"l", "o", "w", " ", "p", "r", "i", "o", "r", "i", "t", "y", " ", "m", "e", "d", "i", "u", "m", " ", "p", "r", "i", "o", "r", "i", "t", "y", " ", "c", "r", "i", "t", "i", "c", "a", "l", " ", "p", "r", "i", "o", "r", "i", "t", "y">>,
     <<"r", "e", "s", "o", "l", "v", "e", "d", " ", "o", "r", " ", "i", "n", " ", "p", "r", "o", "g", "r", "e", "s", "s", " ", "o", "r", " ", "n", "e", "w">>, <<"c", "h", "a", "n", "g", "e", "s">>, <<"G", "R", "O", "U", "P">>,
     <<"c", "l", "o", "s", "e", "d", " ", "i", "n", "c", "i", "d", "e", "n", "t", "s", " ", "w", "i", "t", "h", " ", "l", "o", "w", " ", "p", "r", "i", "o", "r", "i", "t", "y">>, <<"l", "i", "s", "t", " ", " ", "x">>, <<"M", "e", "d", "i", "u", "m", " ", "P", "r", "i", "o", "r", "i", "t", "y", " ", "p", "r", "o", "b", "l", "e", "m", "s">>,
     <<"c", "r", "i", "t", "i", "c", "a", "l", "	", "p", "r", "i", "o", "r", "i", "t", "y">>, <<"w", "o", "r", "U+212A", "i", "n", "g", " ", "o", "n", " ", "h", "i", "g", "h", " ", "p", "r", "i", "o", "r", "i", "t", "y", "U+017F">>}

SearchQueries ==
    Sentences(SearchVocabulary, MaxSearchFrags) \cup SearchExamples \cup SearchCases

InitSearch ==
    /\ text \in SearchQueries
    /\ pc = "call"
    /\ locals = NoLocals
    /\ result = NotCalled
    /\ calls = <<>>
    /\ frames = <<>>
    /\ http = <<>>
    /\ auth = NoAuth
    /\ now = 0
    /\ backend = <<>>

CallSearch ==
    /\ pc = "call"
    /\ pc' = "done"
    /\ locals' = SearchLocals(text)
    /\ result' = SearchOutcome(locals')
    /\ UNCHANGED <<text, calls, frames, http, auth, now, backend>>

NextSearch == CallSearch

SpecSearch == InitSearch /\ [][NextSearch]_vars

ScriptVocabulary ==
    {<<"u", "p", "d", "a", "t", "e", " ", "@", "a", ".", "j", "s", ",">>, <<"@">>, <<" ">>, <<",">>, <<"x">>, <<" ", "u", "i", " ", "s", "c", "r", "i", "p", "t">>, <<" ", "B", "u", "s", "i", "n", "e", "s", "s", " ", "R", "u", "l", "e">>,
     <<" ", "s", "c", "r", "i", "p", "t", " ", "i", "n", "c", "l", "u", "d", "e">>, <<"s">>, <<" ", "c", "l", "i", "e", "n", "t">>}

ScriptExamples ==
    {<<"u", "p", "d", "a", "t", "e", " ", "@", "m", "y", "_", "s", "c", "r", "i", "p", "t", ".", "j", "s", ",", " ", "i", "t", "'", "s", " ", "a", " ", "s", "c", "r", "i", "p", "t", " ", "i", "n", "c", "l", "u", "d", "e">>,
     <<"u", "p", "d", "a", "t", "e", " ", "@", "v", "a", "l", "i", "d", "a", "t", "i", "o", "n", ".", "j", "s", ",", " ", "i", "t", "'", "s", " ", "a", " ", "b", "u", "s", "i", "n", "e", "s", "s", " ", "r", "u", "l", "e">>,
     <<"u", "p", "d", "a", "t", "e", " ", "@", "f", "o", "r", "m", "_", "s", "c", "r", "i", "p", "t", ".", "j", "s", ",", " ", "i", "t", "'", "s", " ", "a", " ", "c", "l", "i", "e", "n", "t", " ", "s", "c", "r", "i", "p", "t">>}

\* further commands, one for each way the statements of the function can go
ScriptCases ==
    {<<"@", "t", "a", "s", "U+212A", ".", "j", "s", " ", "u", "i", " ", "U+017F", "c", "r", "i", "p", "t">>, <<"U", "I", " ", "A", "c", "t", "i", "o", "n", " ", "@", "b">>, <<"a", " ", "f", "i", "x", " ", "s", "c", "r", "i", "p", "t", "s", " ", "@", "c">>}

ScriptCommands ==
    Sentences(ScriptVocabulary, MaxScriptFrags) \cup ScriptExamples \cup ScriptCases

InitScript ==
    /\ text \in ScriptCommands
    /\ pc = "call"
    /\ locals = NoLocals
    /\ result = NotCalled
    /\ calls = <<>>
    /\ frames = <<>>
    /\ http = <<>>
    /\ auth = NoAuth
    /\ now = 0
    /\ backend = <<>>

CallScript ==
    /\ pc = "call"
    /\ pc' = "done"
    /\ locals' = ScriptLocals(text)
    /\ result' = ScriptOutcome(locals')
    /\ UNCHANGED <<text, calls, frames, http, auth, now, backend>>

NextScript == CallScript

SpecScript == InitScript /\ [][NextScript]_vars

(***************************************************************************)
(* Concurrent callers.  Each caller runs one invocation of one of the      *)
(* three functions; an invocation advances one extraction step at a time   *)
(* and the steps of different invocations interleave in any order.  The    *)
(* names a function binds are local variables, so every invocation works   *)
(* on a frame of its own.                                                  *)
(***************************************************************************)
MaxCallers == 2

Callers == 1..MaxCallers

Functions == {"parse_update_command", "parse_search_query", "parse_script_update"}

\* the steps of each function, in the order of its statements
Steps(f) ==
    CASE f = "parse_update_command" ->
             <<"record number", "state", "comment", "close notes">>
      [] f = "parse_search_query" -> <<"table", "search term", "priority", "state">>
      [] f = "parse_script_update" -> <<"filename", "script type">>

NewFrame(f) ==
    CASE f = "parse_update_command" -> UpdateFrame
      [] f = "parse_search_query" -> SearchFrame
      [] f = "parse_script_update" -> ScriptFrame

\* the k-th step of f on the argument arg and the local variables l
StepOf(f, k, arg, l) ==
    CASE f = "parse_update_command" /\ k = 1 -> FindRecordNumber(arg, l)
      [] f = "parse_update_command" /\ k = 2 -> CheckStateChange(arg, l)
      [] f = "parse_update_command" /\ k = 3 -> ExtractComment(arg, l)
      [] f = "parse_update_command" /\ k = 4 -> ExtractCloseNotes(arg, l)
      [] f = "parse_search_query" /\ k = 1 -> ExtractTable(arg, l)
      [] f = "parse_search_query" /\ k = 2 -> ExtractSearchTerm(arg, l)
      [] f = "parse_search_query" /\ k = 3 -> ExtractPriority(arg, l)
      [] f = "parse_search_query" /\ k = 4 -> ExtractState(arg, l)
      [] f = "parse_script_update" /\ k = 1 -> ExtractFilename(arg, l)
      [] f = "parse_script_update" /\ k = 2 -> ExtractScriptType(arg, l)

\* the first step raises when its pattern finds nothing
RaisesAfter(f, k, l) ==
    \/ f = "parse_update_command" /\ k = 1 /\ ~l.number_match.found
    \/ f = "parse_script_update" /\ k = 1 /\ ~l.filename_match.found

Outcome(f, l) ==
    CASE f = "parse_update_command" -> UpdateOutcome(l)
      [] f = "parse_search_query" -> SearchOutcome(l)
      [] f = "parse_script_update" -> ScriptOutcome(l)

\* every invocation shares the frame of the first caller
FrameShared(c) == 1

\* the frame of caller c's invocation: its own
FrameOf(c) == c

FrameKey(c) == <<calls[c].function, FrameOf(c)>>

ConcurrentInvocations ==
    {<<"parse_update_command", <<"C", "l", "o", "s", "e", " ", "I", "N", "C", "1", " ", "w", "i", "t", "h", " ", "r", "e", "s", "o", "l", "u", "t", "i", "o", "n", ":", " ", "d", "o", "n", "e">>>>,
     <<"parse_update_command", <<"p", "r", "b", "7", " ", "s", "a", "y", "i", "n", "g", " ", "w", "o", "r", "k", "i", "n", "g", " ", "o", "n", " ", "i", "t", ".", " ", "m", "o", "r", "e">>>>,
     <<"parse_update_command", <<"p", "r", "b", " ", "s", "a", "y", "i", "n", "g", " ", "f", "i", "x", "e", "d", " ", "i", "t">>>>,
     <<"parse_search_query", <<"f", "i", "n", "d", " ", "a", "l", "l", " ", "u", "s", "e", "r", "s", " ", "a", "b", "o", "u", "t", " ", "e", "m", "a", "i", "l">>>>,
     <<"parse_search_query", <<"s", "h", "o", "w", " ", "o", "p", "e", "n", " ", "i", "n", "c", "i", "d", "e", "n", "t", "s", " ", "w", "i", "t", "h", " ", "h", "i", "g", "h", " ", "p", "r", "i", "o", "r", "i", "t", "y">>>>,
     <<"parse_script_update", <<"u", "p", "d", "a", "t", "e", " ", "@", "a", ".", "j", "s", ",", " ", "u", "i", " ", "s", "c", "r", "i", "p", "t">>>>,
     <<"parse_script_update", <<"@", " ", "x">>>>}

InitConcurrent ==
    /\ text = <<>>
    /\ pc = "done"
    /\ locals = NoLocals
    /\ result = NotCalled
    /\ \E inv \in [Callers -> ConcurrentInvocations] :
           calls = [c \in Callers |->
                       [function |-> inv[c][1], text |-> inv[c][2], pc |-> 0,
                        ended |-> FALSE, result |-> NotCalled]]
    /\ frames = [key \in Functions \X Callers |-> NewFrame(key[1])]
    /\ http = <<>>
    /\ auth = NoAuth
    /\ now = 0
    /\ backend = <<>>

\* caller c's invocation runs its next step; the last step, or a raise,
\* ends the invocation
Step(c) ==
    LET f == calls[c].function
        k == calls[c].pc + 1
        l == StepOf(f, k, calls[c].text,
                    IF k = 1 THEN NewFrame(f) ELSE frames[FrameKey(c)])
    IN  /\ ~calls[c].ended
        /\ frames' = [frames EXCEPT ![FrameKey(c)] = l]
        /\ calls' = [calls EXCEPT ![c] =
                        IF RaisesAfter(f, k, l) \/ k = Len(Steps(f))
                        THEN [@ EXCEPT !.pc = k, !.ended = TRUE, !.result = Outcome(f, l)]
                        ELSE [@ EXCEPT !.pc = k]]
        /\ UNCHANGED <<text, pc, locals, result, http, auth, now, backend>>

NextConcurrent == \E c \in Callers : Step(c)

SpecConcurrent == InitConcurrent /\ [][NextConcurrent]_vars

\* the result of an invocation that runs alone, from its call to its end
RunAlone(f, arg) ==
    CASE f = "parse_update_command" -> parse_update_command(arg)
      [] f = "parse_search_query" -> parse_search_query(arg)
      [] f = "parse_script_update" -> parse_script_update(arg)


(***************************************************************************)
(* ServiceNowMCP.natural_language_update and the backend it calls.  The    *)
(* handler is a coroutine: it gives up control at each request to the      *)
(* backend, and the backend answers each request in one of the ways an     *)
(* HTTP server can.  http is the log of the requests sent and the answers  *)
(* received, in order.                                                     *)
(***************************************************************************)
\* the longest command handed to the handler, in fragments
MaxNLFrags == 2

NLCommands ==
    Sentences(UpdateVocabulary, MaxNLFrags) \cup UpdateExamples \cup UpdateCases

SysIds == {<<"a", "1">>, <<"b", "2">>}

\* the records the backend can hold under a number: with a sys_id, without one,
\* and the empty record
IncidentRecords ==
    {Put(EmptyDict, "sys_id", s) : s \in SysIds}
        \cup {EmptyDict, Put(EmptyDict, "number", <<"I", "N", "C", "1">>)}

\* what the backend can answer a GET with: a JSON object whose "result" is a
\* list of records, a JSON object without "result", an error status, a body that
\* is no JSON
GetAnswers ==
    {[status |-> "ok", body |-> EmptyDict],
     [status |-> "ok", body |-> Put(EmptyDict, "result", <<>>)]}
        \cup {[status |-> "ok", body |-> Put(EmptyDict, "result", <<r>>)] :
                  r \in IncidentRecords}
        \cup {[status |-> "error", body |-> EmptyDict],
              [status |-> "not json", body |-> EmptyDict]}

PutAnswers ==
    {[status |-> "ok", body |-> Put(EmptyDict, "result", Put(EmptyDict, "sys_id", s))] :
        s \in SysIds}
        \cup {[status |-> "error", body |-> EmptyDict],
              [status |-> "not json", body |-> EmptyDict]}

\* ServiceNowClient.request, from the answer on: raise_for_status() raises on an
\* error status, response.json() raises a ValueError on a body that is no JSON
RequestOutcome(answer) ==
    CASE answer.status = "ok" -> Return(answer.body)
      [] answer.status = "error" -> Raise("HTTPStatusError", <<"e", "r", "r", "o", "r", " ", "s", "t", "a", "t", "u", "s">>)
      [] answer.status = "not json" -> Raise("ValueError", <<"E", "x", "p", "e", "c", "t", "i", "n", "g", " ", "v", "a", "l", "u", "e">>)

None == [none |-> TRUE]

Some(v) == [none |-> FALSE, value |-> v]

\* ServiceNowClient.get_incident_by_number, from the body of the answer on
FirstRecord(body) ==
    IF "result" \in DOMAIN body /\ Len(body["result"]) > 0
    THEN Some(body["result"][1])
    ELSE None

\* not incident
NotIncident(incident) == incident.none \/ incident.value = EmptyDict

\* json.dumps: the text that encodes v
dumps(v) == [json |-> v]

ErrorResult(message) == Return(dumps([error |-> message]))

\* every record type is taken for an incident
SupportsEveryRecord(record_number) == TRUE

\* record_number.startswith("INC")
SupportsRecord(record_number) == startswith(record_number, <<"I", "N", "C">>)

GetRequest(number) ==
    [kind |-> "request", method |-> "GET", table |-> <<"i", "n", "c", "i", "d", "e", "n", "t">>,
     query |-> <<"n", "u", "m", "b", "e", "r", "=">> \o number, sys_id |-> <<>>, data |-> EmptyDict]

PutRequest(table, sys_id, data) ==
    [kind |-> "request", method |-> "PUT", table |-> table, query |-> <<>>,
     sys_id |-> sys_id, data |-> data]

Answer(answer) == [kind |-> "answer", answer |-> answer]

\* the local variables of a call of natural_language_update, none bound yet
NLFrame ==
    [record_number |-> <<>>, updates |-> EmptyDict, incident |-> None,
     sys_id |-> <<>>, table |-> <<>>]

InitNLUpdate ==
    /\ text \in NLCommands
    /\ pc = "call"
    /\ locals = NLFrame
    /\ result = NotCalled
    /\ calls = <<>>
    /\ frames = <<>>
    /\ http = <<>>
    /\ auth = NoAuth
    /\ now = 0
    /\ backend = <<>>

\* how an exception raised under the try ends the handler: a ValueError is
\* caught and its message returned, any other exception leaves the handler
Except(outcome) ==
    IF outcome.error = "ValueError" THEN ErrorResult(outcome.message) ELSE outcome

\* Parse the command, and send the GET of get_incident_by_number when the record
\* is an incident
ParseCommand ==
    /\ pc = "call"
    /\ LET parsed == parse_update_command(text)
       IN  IF parsed.raised
           THEN /\ pc' = "done"
                /\ result' = Except(parsed)
                /\ UNCHANGED <<locals, http>>
           ELSE LET record_number == parsed.value[1]
                    updates == parsed.value[2]
                IN  /\ locals' = [locals EXCEPT !.record_number = record_number,
                                                !.updates = updates]
                    /\ IF SupportsRecord(record_number)
                       THEN /\ pc' = "lookup"
                            /\ http' = Append(http, GetRequest(record_number))
                            /\ UNCHANGED result
                       ELSE /\ pc' = "done"
                            /\ result' = ErrorResult(<<"R", "e", "c", "o", "r", "d", " ", "t", "y", "p", "e", " ", "n", "o", "t", " ", "s", "u", "p", "p", "o", "r", "t", "e", "d", ":", " ">>
                                                         \o record_number)
                            /\ UNCHANGED http
    /\ UNCHANGED <<text, calls, frames, auth, now, backend>>

\* the backend answers the GET: the handler ends with an error, or sends the PUT
\* of update_record
LookupAnswered ==
    /\ pc = "lookup"
    /\ \E answer \in GetAnswers :
           LET outcome == RequestOutcome(answer)
               incident == IF outcome.raised THEN None ELSE FirstRecord(outcome.value)
           IN  IF outcome.raised
               THEN /\ pc' = "done"
                    /\ result' = Except(outcome)
                    /\ http' = Append(http, Answer(answer))
                    /\ UNCHANGED locals
               ELSE IF NotIncident(incident)
               THEN /\ pc' = "done"
                    /\ result' = ErrorResult(<<"I", "n", "c", "i", "d", "e", "n", "t", " ">> \o locals.record_number
                                                 \o <<" ", "n", "o", "t", " ", "f", "o", "u", "n", "d">>)
                    /\ http' = Append(http, Answer(answer))
                    /\ locals' = [locals EXCEPT !.incident = incident]
               ELSE IF "sys_id" \notin DOMAIN incident.value
               THEN /\ pc' = "done"
                    /\ result' = Raise("KeyError", <<"'", "s", "y", "s", "_", "i", "d", "'">>)
                    /\ http' = Append(http, Answer(answer))
                    /\ locals' = [locals EXCEPT !.incident = incident]
               ELSE /\ pc' = "write"
                    /\ locals' = [locals EXCEPT !.incident = incident,
                                                !.sys_id = incident.value["sys_id"],
                                                !.table = <<"i", "n", "c", "i", "d", "e", "n", "t">>]
                    /\ http' = http \o <<Answer(answer),
                                         PutRequest(<<"i", "n", "c", "i", "d", "e", "n", "t">>,
                                                    incident.value["sys_id"],
                                                    locals.updates)>>
                    /\ UNCHANGED result
    /\ UNCHANGED <<text, calls, frames, auth, now, backend>>

\* the backend answers the PUT: the handler returns the answer, or ends with the
\* error
UpdateAnswered ==
    /\ pc = "write"
    /\ \E answer \in PutAnswers :
           LET outcome == RequestOutcome(answer)
           IN  /\ pc' = "done"
               /\ http' = Append(http, Answer(answer))
               /\ result' = IF outcome.raised THEN Except(outcome)
                            ELSE Return(dumps(outcome.value))
    /\ UNCHANGED <<text, locals, calls, frames, auth, now, backend>>

NextNLUpdate == ParseCommand \/ LookupAnswered \/ UpdateAnswered

SpecNLUpdate == InitNLUpdate /\ [][NextNLUpdate]_vars

(***************************************************************************)
(* OAuthAuth: get_headers and refresh, and the token endpoint.  calls is   *)
(* the history of the get_headers calls made on the one object, each with  *)
(* the object and the clock it found and how it ended.                     *)
(***************************************************************************)
\* the last second of the clock
MaxTime == 3

\* the most get_headers calls made on the object
MaxHeaderCalls == 3

AccessTokens == {<<"t", "1">>, <<"t", "2">>}

RefreshTokens == {<<"r", "1">>}

\* the lifetimes the token endpoint grants, in seconds
ExpiresIn == {1, 2}

\* result.get("expires_in", 1800)
DefaultExpiresIn == 1800

\* the Python values token_expiry takes: None, a datetime, a float
NoExpiry == [type |-> "NoneType", t |-> 0]

Datetime(t) == [type |-> "datetime", t |-> t]

Float(t) == [type |-> "float", t |-> t]

\* the objects OAuthAuth.__init__ can build: create_oauth_auth passes neither a
\* token nor an expiry, a caller of the constructor may pass them
InitialAuths ==
    {[token |-> tk, refresh_token |-> rt, token_expiry |-> ex] :
        tk \in {None, Some(<<"t", "0">>)},
        rt \in {None} \cup {Some(r) : r \in RefreshTokens},
        ex \in {NoExpiry, Datetime(1)}}

\* bool(v)
Truthy(v) ==
    CASE v.type = "NoneType" -> FALSE
      [] v.type = "datetime" -> TRUE
      [] v.type = "float" -> v.t # 0

\* the JSON objects the token endpoint can answer with: a token with or without
\* a refresh token and a lifetime, or an object without access_token
TokenBodies ==
    {Put(EmptyDict, "access_token", t) : t \in AccessTokens}
        \cup {Put(Put(EmptyDict, "access_token", t), "expires_in", n) :
                 t \in AccessTokens, n \in ExpiresIn}
        \cup {Put(Put(Put(EmptyDict, "access_token", t), "expires_in", n),
                  "refresh_token", r) :
                 t \in AccessTokens, n \in ExpiresIn, r \in RefreshTokens}
        \cup {Put(EmptyDict, "error", <<"i", "n", "v", "a", "l", "i", "d", "_", "g", "r", "a", "n", "t">>)}

TokenAnswers ==
    {[status |-> "ok", body |-> b] : b \in TokenBodies}
        \cup {[status |-> "error", body |-> EmptyDict],
              [status |-> "not json", body |-> EmptyDict]}

\* {"Authorization": f"Bearer {self.token}"}
Bearer(token) ==
    [Authorization |-> <<"B", "e", "a", "r", "e", "r", " ">> \o (IF token.none THEN <<"N", "o", "n", "e">> ELSE token.value)]

\* the data of the POST to oauth_token.do
TokenRequest(a) ==
    IF ~a.refresh_token.none /\ a.refresh_token.value # <<>>
    THEN [kind |-> "request", method |-> "POST", grant_type |-> "refresh_token",
          refresh_token |-> a.refresh_token]
    ELSE [kind |-> "request", method |-> "POST", grant_type |-> "password",
          refresh_token |-> None]

\* the assignments of refresh after the endpoint answered with body
Refreshed(body, clock) ==
    [token |-> Some(body["access_token"]),
     refresh_token |-> IF "refresh_token" \in DOMAIN body
                       THEN Some(body["refresh_token"]) ELSE None,
     token_expiry |-> Float(clock + (IF "expires_in" \in DOMAIN body
                                     THEN body["expires_in"]
                                     ELSE DefaultExpiresIn))]

\* a get_headers call as it begins
HeaderCall(requests) ==
    [before |-> auth, at |-> now, requests |-> requests, answered |-> "none",
     ended |-> FALSE, outcome |-> NotCalled]

EndCall(call, answered, outcome) ==
    [call EXCEPT !.answered = answered, !.ended = TRUE, !.outcome = outcome]

InitOAuth ==
    /\ auth \in InitialAuths
    /\ now = 0
    /\ pc = "idle"
    /\ calls = <<>>
    /\ http = <<>>
    /\ result = NotCalled
    /\ text = <<>>
    /\ locals = NoLocals
    /\ frames = <<>>
    /\ backend = <<>>

\* get_headers up to its await: the test of line 153, then the return of line
\* 156, the TypeError of a datetime compared with a float, or the POST of refresh
GetHeaders ==
    /\ pc = "idle"
    /\ Len(calls) < MaxHeaderCalls
    /\ IF auth.token.none
       THEN /\ pc' = "refresh"
            /\ http' = Append(http, TokenRequest(auth))
            /\ calls' = Append(calls, HeaderCall(1))
            /\ UNCHANGED result
       ELSE IF ~Truthy(auth.token_expiry)
       THEN /\ result' = Return(Bearer(auth.token))
            /\ calls' = Append(calls, EndCall(HeaderCall(0), "none", result'))
            /\ UNCHANGED <<pc, http>>
       ELSE IF auth.token_expiry.type # "datetime"
       THEN /\ result' = Raise("TypeError",
                               <<"'", ">", "'", " ", "n", "o", "t", " ", "s", "u", "p", "p", "o", "r", "t", "e", "d", " ", "b", "e", "t", "w", "e", "e", "n", " ", "i", "n", "s", "t", "a", "n", "c", "e", "s", " ", "o", "f", " ", "'", "d", "a", "t", "e", "t", "i", "m", "e", ".", "d", "a", "t", "e", "t", "i", "m", "e", "'", " ", "a", "n", "d", " ", "'", "f", "l", "o", "a", "t", "'">>)
            /\ calls' = Append(calls, EndCall(HeaderCall(0), "none", result'))
            /\ UNCHANGED <<pc, http>>
       ELSE IF now > auth.token_expiry.t
       THEN /\ pc' = "refresh"
            /\ http' = Append(http, TokenRequest(auth))
            /\ calls' = Append(calls, HeaderCall(1))
            /\ UNCHANGED result
       ELSE /\ result' = Return(Bearer(auth.token))
            /\ calls' = Append(calls, EndCall(HeaderCall(0), "none", result'))
            /\ UNCHANGED <<pc, http>>
    /\ UNCHANGED <<text, locals, frames, auth, now, backend>>

\* the token endpoint answers: refresh stores the token and get_headers returns
\* its header, or the error leaves both
RefreshAnswered ==
    /\ pc = "refresh"
    /\ \E answer \in TokenAnswers :
           LET outcome == RequestOutcome(answer)
               call == calls[Len(calls)]
           IN  /\ http' = Append(http, Answer(answer))
               /\ IF outcome.raised
                  THEN /\ result' = outcome
                       /\ calls' = [calls EXCEPT ![Len(calls)] =
                                        EndCall(call, "failed", outcome)]
                       /\ UNCHANGED auth
                  ELSE IF "access_token" \notin DOMAIN outcome.value
                  THEN /\ result' = Raise("KeyError", <<"'", "a", "c", "c", "e", "s", "s", "_", "t", "o", "k", "e", "n", "'">>)
                       /\ calls' = [calls EXCEPT ![Len(calls)] =
                                        EndCall(call, "failed", result')]
                       /\ UNCHANGED auth
                  ELSE /\ auth' = Refreshed(outcome.value, now)
                       /\ result' = Return(Bearer(auth'.token))
                       /\ calls' = [calls EXCEPT ![Len(calls)] =
                                        EndCall(call, "ok", result')]
    /\ pc' = "idle"
    /\ UNCHANGED <<text, locals, frames, now, backend>>

\* a second passes
Tick ==
    /\ now < MaxTime
    /\ now' = now + 1
    /\ UNCHANGED <<text, pc, locals, result, calls, frames, http, auth, backend>>

NextOAuth == GetHeaders \/ RefreshAnswered \/ Tick

SpecOAuth == InitOAuth /\ [][NextOAuth]_vars

(***************************************************************************)
(* ServiceNowMCP.update_script, called by concurrent callers on one        *)
(* backend.  A call gives up control at its two awaits, so another call    *)
(* can run between its lookup and its write.  The backend handles one      *)
(* request at a time, or rejects it with an error status.                  *)
(***************************************************************************)
ScriptNames == {<<"a", ".", "j", "s">>, <<"b", ".", "j", "s">>}

ScriptTypes == {<<"s", "y", "s", "_", "s", "c", "r", "i", "p", "t">>, <<"s", "y", "s", "_", "s", "c", "r", "i", "p", "t", "_", "i", "n", "c", "l", "u", "d", "e">>}

\* the arguments of the calls; the description is None or a text
ScriptUpdateModels ==
    {[name |-> n, script |-> <<"x", "=", "1">>, type |-> t, description |-> d] :
        n \in ScriptNames, t \in ScriptTypes, d \in {None, Some(<<"d">>)}}

\* the backend before the calls: no script, or one
InitialBackends ==
    {<<>>,
     <<[sys_id |-> <<"i", "d", "0">>, table |-> <<"s", "y", "s", "_", "s", "c", "r", "i", "p", "t">>, name |-> <<"a", ".", "j", "s">>,
        script |-> <<"o", "l", "d">>, description |-> None]>>}

\* the sys_id the backend gives to its n-th record
NewSysId(n) == <<"i", "d">> \o <<<<"0", "1", "2", "3", "4", "5", "6", "7", "8", "9">>[n + 1]>>

\* GET /api/now/table/{table} with sysparm_query name={name}, sysparm_limit 1
Matching(table, name) ==
    LET found == SelectSeq(backend, LAMBDA r : r.table = table /\ r.name = name)
    IN  IF found = <<>> THEN <<>> ELSE <<Head(found)>>

\* if script_update.description: a None or an empty description is left out
WithDescription(data, description) ==
    IF ~description.none /\ description.value # <<>>
    THEN Put(data, "description", description.value)
    ELSE data

\* the data of the POST
CreateData(u) ==
    WithDescription(Put(Put(EmptyDict, "name", u.name), "script", u.script),
                    u.description)

\* the data of the PUT
UpdateData(u) == WithDescription(Put(EmptyDict, "script", u.script), u.description)

\* the record the backend makes of a POST
Created(table, data, n) ==
    [sys_id |-> NewSysId(n), table |-> table, name |-> data["name"],
     script |-> data["script"],
     description |-> IF "description" \in DOMAIN data
                     THEN Some(data["description"]) ELSE None]

\* the record the backend makes of a PUT on the record r
Updated(r, data) ==
    [r EXCEPT !.script = data["script"],
              !.description = IF "description" \in DOMAIN data
                              THEN Some(data["description"]) ELSE @]

\* not result.get("result") or len(result["result"]) == 0
NotFound(body) == "result" \notin DOMAIN body \/ Len(body["result"]) = 0

ScriptRequest(c, method, table, sys_id, data) ==
    [kind |-> "request", caller |-> c, method |-> method, table |-> table,
     sys_id |-> sys_id, data |-> data]

ScriptAnswer(c, answer) == [kind |-> "answer", caller |-> c, answer |-> answer]

InitScriptUpdate ==
    /\ calls \in [Callers -> {[script_update |-> u, pc |-> "lookup", ended |-> FALSE,
                               result |-> NotCalled] : u \in ScriptUpdateModels}]
    /\ frames = [c \in Callers |-> [result |-> EmptyDict]]
    /\ backend \in InitialBackends
    /\ http = <<>>
    /\ text = <<>>
    /\ pc = "done"
    /\ locals = NoLocals
    /\ result = NotCalled
    /\ auth = NoAuth
    /\ now = 0

\* the call of caller c up to the return of its first await: get_records
LookupScript(c) ==
    /\ calls[c].pc = "lookup"
    /\ \E status \in {"ok", "error"} :
           LET u == calls[c].script_update
               answer == [status |-> status,
                          body |-> IF status = "ok"
                                   THEN Put(EmptyDict, "result", Matching(u.type, u.name))
                                   ELSE EmptyDict]
               outcome == RequestOutcome(answer)
           IN  /\ http' = http \o <<ScriptRequest(c, "GET", u.type, <<>>,
                                                  Put(EmptyDict, "name", u.name)),
                                    ScriptAnswer(c, answer)>>
               /\ IF outcome.raised
                  THEN /\ calls' = [calls EXCEPT ![c].pc = "done", ![c].ended = TRUE,
                                                 ![c].result = outcome]
                       /\ UNCHANGED frames
                  ELSE /\ calls' = [calls EXCEPT ![c].pc = "write"]
                       /\ frames' = [frames EXCEPT ![c].result = outcome.value]
    /\ UNCHANGED <<text, pc, locals, result, auth, now, backend>>

\* the call of caller c from there to its end: create_record or update_record,
\* and the return
WriteScript(c) ==
    /\ calls[c].pc = "write"
    /\ \E status \in {"ok", "error"} :
           LET u == calls[c].script_update
               table == u.type
               create == NotFound(frames[c].result)
               sys_id == IF create THEN <<>> ELSE frames[c].result["result"][1].sys_id
               data == IF create THEN CreateData(u) ELSE UpdateData(u)
               at == {i \in 1..Len(backend) :
                         backend[i].table = table /\ backend[i].sys_id = sys_id}
               first == CHOOSE i \in at : \A j \in at : i <= j
               record == IF create THEN Created(table, data, Len(backend))
                         ELSE Updated(backend[first], data)
               answer == [status |-> status,
                          body |-> IF status = "ok"
                                   THEN Put(EmptyDict, "result", record)
                                   ELSE EmptyDict]
               outcome == RequestOutcome(answer)
           IN  /\ http' = http \o <<ScriptRequest(c, IF create THEN "POST" ELSE "PUT",
                                                  table, sys_id, data),
                                    ScriptAnswer(c, answer)>>
               /\ backend' = IF status # "ok" THEN backend
                             ELSE IF create THEN Append(backend, record)
                             ELSE [backend EXCEPT ![first] = record]
               /\ calls' = [calls EXCEPT ![c].pc = "done", ![c].ended = TRUE,
                                         ![c].result = IF outcome.raised THEN outcome
                                                       ELSE Return(dumps(outcome.value))]
               /\ frames' = [frames EXCEPT ![c].result = IF outcome.raised THEN @
                                                         ELSE outcome.value]
    /\ UNCHANGED <<text, pc, locals, result, auth, now>>

NextScriptUpdate == \E c \in Callers : LookupScript(c) \/ WriteScript(c)

SpecScriptUpdate == InitScriptUpdate /\ [][NextScriptUpdate]_vars

(***************************************************************************)
(* What the claims speak of, said without the patterns of the code.        *)
(***************************************************************************)
\* the lower-case word w stands in s at position i, whatever the case of s
OccursAt(w, s, i) ==
    /\ i + Len(w) - 1 <= Len(s)
    /\ \A k \in 1..Len(w) : Fold(s[i + k - 1]) = w[k]

Occurs(w, s) == \E i \in 1..Len(s) : OccursAt(w, s, i)

OccursAsWord(w, s) ==
    \E i \in 1..Len(s) :
        OccursAt(w, s, i) /\ WordBoundary(s, i) /\ WordBoundary(s, i + Len(w))

NoLineBreak(s) == \A i \in 1..Len(s) : s[i] # "\n"

Returned == pc = "done" /\ ~result.raised

Raised == pc = "done" /\ result.raised

\* an error carries the exception and nothing of a result
NothingReturned == DOMAIN result = {"raised", "error", "message"}

(***************************************************************************)
(* C3                                                                      *)
(***************************************************************************)
RecordPrefixes == {<<"i", "n", "c">>, <<"p", "r", "b">>, <<"c", "h", "g">>, <<"t", "a", "s", "k">>}

\* s holds INC, PRB, CHG or TASK, in any case, with a digit right after it
HasRecordNumber(s) ==
    \E w \in RecordPrefixes : \E i \in 1..Len(s) :
        /\ OccursAt(w, s, i)
        /\ i + Len(w) <= Len(s)
        /\ s[i + Len(w)] \in Digits

\* C3: parse_update_command raises, returning neither a record id nor a field,
\* exactly when the command holds no INC, PRB, CHG or TASK (any case) with a digit
\* right after it; every other command returns a result.
C3_ErrorIffNoRecordNumber ==
    pc = "done" =>
        /\ result.raised <=> ~HasRecordNumber(text)
        /\ result.raised => NothingReturned
        /\ ~result.raised => Len(result.value) = 2

\* a command that holds a prefix without a digit after it, and raised
C3_Witness ==
    /\ Raised
    /\ \E w \in RecordPrefixes : Occurs(w, text)
    /\ Occurs(<<"s", "a", "y", "i", "n", "g">>, text)

(***************************************************************************)
(* C4                                                                      *)
(***************************************************************************)
\* an '@' with a character after it that is neither whitespace nor a comma
MarkerAt(s, i) ==
    /\ s[i] = "@"
    /\ i + 1 <= Len(s)
    /\ s[i + 1] \notin Whitespace \cup {","}

Markers(s) == {i \in 1..Len(s) : MarkerAt(s, i)}

\* the longest run of characters that are neither whitespace nor a comma after
\* position i
NameAfter(s, i) ==
    LET stops == {j \in (i + 1)..Len(s) : s[j] \in Whitespace \cup {","}}
        stop  == IF stops = {} THEN Len(s) + 1
                 ELSE CHOOSE j \in stops : \A k \in stops : j <= k
    IN  SubSeq(s, i + 1, stop - 1)

\* C4: parse_script_update raises exactly when the command has no '@' followed by
\* a character that is neither whitespace nor a comma; otherwise the name is the
\* longest such run after the first such '@' and the content is empty.
C4_NameAfterFirstMarker ==
    pc = "done" =>
        /\ result.raised <=> Markers(text) = {}
        /\ result.raised => NothingReturned
        /\ ~result.raised =>
               LET first == CHOOSE i \in Markers(text) : \A j \in Markers(text) : i <= j
               IN  /\ result.value[1] = NameAfter(text, first)
                   /\ result.value[3] = <<>>

\* the name was taken after an '@' that is not the first '@' of the command
C4_Witness ==
    /\ Returned
    /\ \E i \in 1..Len(text) : text[i] = "@" /\ ~MarkerAt(text, i)
                               /\ \A j \in Markers(text) : i < j
    /\ result.value[1] = <<"a", ".", "j", "s">>

(***************************************************************************)
(* C5                                                                      *)
(***************************************************************************)
\* the phrases in the order of the claim
KindPhrases ==
    <<<<"s", "c", "r", "i", "p", "t", " ", "i", "n", "c", "l", "u", "d", "e">>, <<"b", "u", "s", "i", "n", "e", "s", "s", " ", "r", "u", "l", "e">>, <<"c", "l", "i", "e", "n", "t", " ", "s", "c", "r", "i", "p", "t">>, <<"u", "i", " ", "s", "c", "r", "i", "p", "t">>,
      <<"u", "i", " ", "a", "c", "t", "i", "o", "n">>, <<"u", "i", " ", "p", "a", "g", "e">>, <<"u", "i", " ", "m", "a", "c", "r", "o">>, <<"s", "c", "h", "e", "d", "u", "l", "e", "d", " ", "j", "o", "b">>, <<"f", "i", "x", " ", "s", "c", "r", "i", "p", "t">>>>

KindIdentifiers ==
    {<<"s", "y", "s", "_", "s", "c", "r", "i", "p", "t", "_", "i", "n", "c", "l", "u", "d", "e">>, <<"s", "y", "s", "_", "s", "c", "r", "i", "p", "t">>, <<"s", "y", "s", "_", "s", "c", "r", "i", "p", "t", "_", "c", "l", "i", "e", "n", "t">>, <<"s", "y", "s", "_", "u", "i", "_", "s", "c", "r", "i", "p", "t">>,
     <<"s", "y", "s", "_", "u", "i", "_", "a", "c", "t", "i", "o", "n">>, <<"s", "y", "s", "_", "u", "i", "_", "p", "a", "g", "e">>, <<"s", "y", "s", "_", "u", "i", "_", "m", "a", "c", "r", "o">>, <<"s", "y", "s", "a", "u", "t", "o", "_", "s", "c", "r", "i", "p", "t">>,
     <<"s", "y", "s", "_", "s", "c", "r", "i", "p", "t", "_", "f", "i", "x">>}

PhrasesIn(s) == {k \in 1..Len(KindPhrases) : OccursAsWord(KindPhrases[k], s)}

FirstPhraseIn(s) == CHOOSE k \in PhrasesIn(s) : \A j \in PhrasesIn(s) : k <= j

\* C5: on success the kind is the identifier of the first phrase, in the order of
\* the table, that stands in the command as a whole word in any case; it is
\* sys_script_include when none does; it is one of the nine identifiers.
C5_KindByTableOrder ==
    Returned =>
        /\ result.value[2] \in KindIdentifiers
        /\ PhrasesIn(text) = {} => result.value[2] = <<"s", "y", "s", "_", "s", "c", "r", "i", "p", "t", "_", "i", "n", "c", "l", "u", "d", "e">>
        /\ PhrasesIn(text) # {} =>
               /\ script_types[FirstPhraseIn(text)][1] = KindPhrases[FirstPhraseIn(text)]
               /\ result.value[2] = script_types[FirstPhraseIn(text)][2]
        /\ (PhrasesIn(text) # {} /\ FirstPhraseIn(text) = 2) =>
               result.value[2] = <<"s", "y", "s", "_", "s", "c", "r", "i", "p", "t">>
        /\ (PhrasesIn(text) # {} /\ FirstPhraseIn(text) = 3) =>
               result.value[2] = <<"s", "y", "s", "_", "s", "c", "r", "i", "p", "t", "_", "c", "l", "i", "e", "n", "t">>

\* 'ui script' stands before 'business rule' in the command and the kind is
\* that of 'business rule'
C5_Witness ==
    /\ Returned
    /\ PhrasesIn(text) = {2, 4}
    /\ \E i, j \in 1..Len(text) :
          /\ OccursAt(KindPhrases[4], text, i)
          /\ OccursAt(KindPhrases[2], text, j)
          /\ i < j
    /\ result.value[2] = <<"s", "y", "s", "_", "s", "c", "r", "i", "p", "t">>

(***************************************************************************)
(* C6                                                                      *)
(***************************************************************************)
CollectionWords == {<<"i", "n", "c", "i", "d", "e", "n", "t">>, <<"p", "r", "o", "b", "l", "e", "m">>, <<"c", "h", "a", "n", "g", "e">>, <<"t", "a", "s", "k">>, <<"u", "s", "e", "r">>, <<"g", "r", "o", "u", "p">>}

\* C6: parse_search_query returns for every text; the limit is 10; without a
\* collection keyword the table is incident; without a search term, a priority
\* and a state the query is the empty string.
C6_NeverFailsAndDefaults ==
    pc = "done" =>
        /\ ~result.raised
        /\ DOMAIN result.value = {"table", "query", "limit"}
        /\ result.value.limit = 10
        /\ (\A w \in CollectionWords : ~Occurs(w, text)) =>
               result.value.table = <<"i", "n", "c", "i", "d", "e", "n", "t">>
        /\ (locals.search_term = <<>> /\ locals.priority = <<>>
                /\ locals.state = <<>>) =>
               result.value.query = <<>>

\* a text with words in it, none of them a signal: the defaults come back
C6_Witness ==
    /\ Returned
    /\ Occurs(<<"e", "m", "a", "i", "l">>, text)
    /\ \A w \in CollectionWords : ~Occurs(w, text)
    /\ result.value = [table |-> <<"i", "n", "c", "i", "d", "e", "n", "t">>, query |-> <<>>, limit |-> 10]

(***************************************************************************)
(* C8                                                                      *)
(***************************************************************************)
ResolutionMarkers == {<<"w", "i", "t", "h", " ", "r", "e", "s", "o", "l", "u", "t", "i", "o", "n">>, <<"r", "e", "s", "o", "l", "u", "t", "i", "o", "n">>, <<"c", "l", "o", "s", "e", " ", "n", "o", "t", "e">>, <<"r", "e", "s", "o", "l", "v", "e", " ", "w", "i", "t", "h">>}

\* a resolution marker with at least one character after it: in a command of one
\* line that character, at the least, is captured
ResolutionPhraseFound(s) ==
    \E w \in ResolutionMarkers : \E i \in 1..Len(s) :
        OccursAt(w, s, i) /\ i + Len(w) <= Len(s)

FirstOccurrence(w, s) ==
    LET at == {i \in 1..Len(s) : OccursAt(w, s, i)}
    IN  IF at = {} THEN 0 ELSE CHOOSE i \in at : \A j \in at : i <= j

NoteMarkers == {<<"s", "a", "y", "i", "n", "g">>, <<"c", "o", "m", "m", "e", "n", "t">>, <<"n", "o", "t", "e">>}

ResolutionColon == <<"w", "i", "t", "h", " ", "r", "e", "s", "o", "l", "u", "t", "i", "o", "n", ":">>

\* the text after the first 'with resolution:'
C1_X(s) == SubSeq(s, FirstOccurrence(ResolutionColon, s) + Len(ResolutionColon), Len(s))

\* the command begins with the word Close, names a record identifier and ends
\* with 'with resolution: X', X holding text and no note marker
C1_Shape(s) ==
    /\ OccursAt(<<"c", "l", "o", "s", "e">>, s, 1)
    /\ WordBoundary(s, 6)
    /\ HasRecordNumber(s)
    /\ FirstOccurrence(ResolutionColon, s) # 0
    /\ strip(C1_X(s)) # <<>>
    /\ \A w \in NoteMarkers : ~Occurs(w, C1_X(s))

C1_Example == <<"C", "l", "o", "s", "e", " ", "i", "n", "c", "i", "d", "e", "n", "t", " ", "I", "N", "C", "0", "0", "1", "0", "0", "0", "2", " ", "w", "i", "t", "h", " ", "r", "e", "s", "o", "l", "u", "t", "i", "o", "n", ":", " ", "f", "i", "x", "e", "d", " ", "t", "h", "e", " ", "i", "s", "s", "u", "e">>

\* C1: a command that begins with Close, names a record identifier and ends with
\* 'with resolution: X' returns exactly state 7, close_notes X trimmed and
\* close_code 'Solved (Permanently)'; 'Close incident INC0010002 with resolution:
\* fixed the issue' returns INC0010002 with state 7, close_notes 'fixed the issue'
\* and that close_code.
C1_CloseWithResolution ==
    pc = "done" =>
        /\ C1_Shape(text) =>
               /\ ~result.raised
               /\ result.value[2] = [state |-> 7, close_notes |-> strip(C1_X(text)),
                                     close_code |-> SolvedPermanently]
        /\ text = C1_Example =>
               result = Return(<<<<"I", "N", "C", "0", "0", "1", "0", "0", "0", "2">>,
                                 [state |-> 7, close_notes |-> <<"f", "i", "x", "e", "d", " ", "t", "h", "e", " ", "i", "s", "s", "u", "e">>,
                                  close_code |-> SolvedPermanently]>>)

(***************************************************************************)
(* C2                                                                      *)
(***************************************************************************)
UpdateIncident == <<"u", "p", "d", "a", "t", "e", " ", "i", "n", "c", "i", "d", "e", "n", "t", " ">>

Saying == <<" ", "s", "a", "y", "i", "n", "g", " ">>

\* INC, PRB, CHG or TASK, in any case, and then digits, at least one, to the end
IsRecordNumber(id) ==
    \E w \in RecordPrefixes :
        /\ OccursAt(w, id, 1)
        /\ Len(id) > Len(w)
        /\ \A k \in (Len(w) + 1)..Len(id) : id[k] \in Digits

C2_Id(s) == SubSeq(s, Len(UpdateIncident) + 1, FirstOccurrence(Saying, s) - 1)

C2_X(s) == SubSeq(s, FirstOccurrence(Saying, s) + Len(Saying), Len(s))

InProgressPhrases == {<<"w", "o", "r", "k", "i", "n", "g", " ", "o", "n">>, <<"i", "n", " ", "p", "r", "o", "g", "r", "e", "s", "s">>, <<"a", "s", "s", "i", "g", "n">>}

WorkNoteMarkers == {<<"w", "o", "r", "k", " ", "n", "o", "t", "e">>, <<"i", "n", "t", "e", "r", "n", "a", "l">>, <<"p", "r", "i", "v", "a", "t", "e">>}

\* the command is 'Update incident <ID> saying X', X holds an in-progress phrase
\* and the command holds no work-note marker
C2_Shape(s) ==
    /\ OccursAt(UpdateIncident, s, 1)
    /\ FirstOccurrence(Saying, s) # 0
    /\ IsRecordNumber(C2_Id(s))
    /\ \E w \in InProgressPhrases : OccursAsWord(w, C2_X(s))
    /\ \A w \in WorkNoteMarkers : ~OccursAsWord(w, s)

DropLeadingSpace(s) ==
    LET keep == {i \in 1..Len(s) : s[i] \notin Whitespace}
    IN  IF keep = {} THEN <<>>
        ELSE SubSeq(s, CHOOSE i \in keep : \A j \in keep : i <= j, Len(s))

\* a period, not the first character of s, with whitespace or the end of s after it
IsTerminator(s, j) ==
    /\ j > 1
    /\ s[j] = "."
    /\ (j = Len(s) \/ s[j + 1] \in Whitespace)

\* the note of X: X without its leading whitespace and one colon, cut before its
\* first sentence terminator, trimmed
NoteText(X) ==
    LET a == DropLeadingSpace(X)
        b == IF a # <<>> /\ a[1] = ":" THEN Tail(a) ELSE a
        c == DropLeadingSpace(b)
        ends == {j \in 1..Len(c) : IsTerminator(c, j)}
    IN  IF ends = {} THEN strip(c)
        ELSE strip(SubSeq(c, 1, (CHOOSE j \in ends : \A k \in ends : j <= k) - 1))

AboutWords ==
    {<<"a", "b", "o", "u", "t">>, <<"r", "e", "l", "a", "t", "e", "d", " ", "t", "o">>, <<"r", "e", "g", "a", "r", "d", "i", "n", "g">>, <<"c", "o", "n", "c", "e", "r", "n", "i", "n", "g">>, <<"w", "i", "t", "h">>, <<"c", "o", "n", "t", "a", "i", "n", "i", "n", "g">>}

KeywordAt(s, i) == \E w \in AboutWords : OccursAt(w, s, i)

\* the position after the keyword that stands at i
AfterKeyword(s, i) == i + Len(CHOOSE w \in AboutWords : OccursAt(w, s, i))

Keywords(s) == {i \in 1..Len(s) : KeywordAt(s, i)}

\* the keyword at i has whitespace after it and then a character that is no period
KeywordWithText(s, i) ==
    /\ KeywordAt(s, i)
    /\ AfterKeyword(s, i) + 1 <= Len(s)
    /\ s[AfterKeyword(s, i)] \in Whitespace
    /\ s[AfterKeyword(s, i) + 1] # "."

KeywordsWithText(s) == {i \in 1..Len(s) : KeywordWithText(s, i)}

Leftmost(positions) == CHOOSE i \in positions : \A j \in positions : i <= j

\* s from position q up to its first period from q on, or to its end
UpToPeriod(s, q) ==
    LET dots == {j \in q..Len(s) : s[j] = "."}
    IN  SubSeq(s, q, IF dots = {} THEN Len(s) ELSE Leftmost(dots) - 1)

HasTextClause(query_string) == startswith(query_string, TextQueryOperator)

\* C7 as claimed: when the text holds a keyword followed by text X, X being all
\* the text after the keyword, the search term is X trimmed and the text-query
\* clause is the operator followed by it.
C7_TermIsAllTextAfterKeyword ==
    (pc = "done" /\ KeywordsWithText(text) # {}) =>
        LET i == Leftmost(KeywordsWithText(text))
            X == SubSeq(text, AfterKeyword(text, i), Len(text))
        IN  /\ locals.search_term = strip(X)
            /\ strip(X) # <<>> =>
                   startswith(result.value.query, TextQueryOperator \o strip(X))

\* C7 as amended: when the text holds a keyword with whitespace and then a
\* character other than a period after it, the search term is the text after the
\* leftmost such keyword up to the first period, trimmed; the text-query clause
\* is the operator followed by that term, and there is none when the term is
\* empty; the find pattern is not used.
C7_TermIsTextUpToPeriod ==
    (pc = "done" /\ KeywordsWithText(text) # {}) =>
        LET i == Leftmost(KeywordsWithText(text))
            T == strip(UpToPeriod(text, AfterKeyword(text, i)))
        IN  /\ locals.search_term = T
            /\ T # <<>> => startswith(result.value.query, TextQueryOperator \o T)
            /\ T = <<>> => ~HasTextClause(result.value.query)

\* a find phrase stands before the keyword and a period after the term
C7_Witness ==
    /\ Returned
    /\ KeywordsWithText(text) # {}
    /\ OccursAt(<<"f", "i", "n", "d", " ", "a", "l", "l">>, text, 1)
    /\ \E j \in Leftmost(KeywordsWithText(text))..Len(text) : text[j] = "."
    /\ locals.search_term = <<"e", "m", "a", "i", "l">>
    /\ HasTextClause(result.value.query)

(***************************************************************************)
(* C10                                                                     *)
(***************************************************************************)
\* s.split(c)
RECURSIVE SplitOn(_, _)
SplitOn(c, s) ==
    LET at == {i \in 1..Len(s) : s[i] = c}
    IN  IF at = {} THEN <<s>>
        ELSE <<SubSeq(s, 1, Leftmost(at) - 1)>>
             \o SplitOn(c, SubSeq(s, Leftmost(at) + 1, Len(s)))

\* the clauses of a filter expression
Clauses(q) == IF q = <<>> THEN <<>> ELSE SplitOn("^", q)

ClausesOf(field, q) == {k \in 1..Len(Clauses(q)) : startswith(Clauses(q)[k], field)}

\* C10: the filter expression, read as clauses separated by '^', holds at most one
\* text-query clause, at most one priority clause and at most one state clause,
\* whatever characters the search term holds.
C10_AtMostOneClauseEach ==
    pc = "done" =>
        /\ Cardinality(ClausesOf(TextQueryOperator, result.value.query)) <= 1
        /\ Cardinality(ClausesOf(<<"p", "r", "i", "o", "r", "i", "t", "y", "=">>, result.value.query)) <= 1
        /\ Cardinality(ClausesOf(<<"s", "t", "a", "t", "e", "=">>, result.value.query)) <= 1

(***************************************************************************)
(* C9                                                                      *)
(***************************************************************************)
\* the results of the invocations run alone
Alone == [inv \in ConcurrentInvocations |-> RunAlone(inv[1], inv[2])]

InFlight(c) == calls[c].pc > 0 /\ ~calls[c].ended

Ended(c) == calls[c].ended

Targets ==
    {<<"i", "n", "c", "i", "d", "e", "n", "t">>, <<"p", "r", "o", "b", "l", "e", "m">>, <<"c", "h", "a", "n", "g", "e", "_", "r", "e", "q", "u", "e", "s", "t">>, <<"t", "a", "s", "k">>, <<"s", "y", "s", "_", "u", "s", "e", "r">>,
     <<"s", "y", "s", "_", "u", "s", "e", "r", "_", "g", "r", "o", "u", "p">>}

\* the target of a collection keyword
TargetOf(w) ==
    CASE w = <<"i", "n", "c", "i", "d", "e", "n", "t">> -> <<"i", "n", "c", "i", "d", "e", "n", "t">>
      [] w = <<"p", "r", "o", "b", "l", "e", "m">> -> <<"p", "r", "o", "b", "l", "e", "m">>
      [] w = <<"c", "h", "a", "n", "g", "e">> -> <<"c", "h", "a", "n", "g", "e", "_", "r", "e", "q", "u", "e", "s", "t">>
      [] w = <<"t", "a", "s", "k">> -> <<"t", "a", "s", "k">>
      [] w = <<"u", "s", "e", "r">> -> <<"s", "y", "s", "_", "u", "s", "e", "r">>
      [] w = <<"g", "r", "o", "u", "p">> -> <<"s", "y", "s", "_", "u", "s", "e", "r", "_", "g", "r", "o", "u", "p">>

\* the positions of s at which a collection keyword stands, in any case
KeywordPositions(s) ==
    {i \in 1..Len(s) : \E w \in CollectionWords : OccursAt(w, s, i)}

\* the collection keyword that stands at position i of s
KeywordOf(s, i) == CHOOSE w \in CollectionWords : OccursAt(w, s, i)

\* C11: the table is always one of the six targets, and it is the target of the
\* first (leftmost) collection keyword of the text, in any case; keywords that
\* stand later have no effect.
C11_TableOfFirstKeyword ==
    pc = "done" =>
        /\ result.value.table \in Targets
        /\ KeywordPositions(text) # {} =>
               result.value.table =
                   TargetOf(KeywordOf(text, Leftmost(KeywordPositions(text))))

(***************************************************************************)
(* C12                                                                     *)
(***************************************************************************)
\* the positions of s at which INC, PRB, CHG or TASK stands, in any case, with a
\* digit right after it
RecordNumberPositions(s) ==
    {i \in 1..Len(s) :
        \E w \in RecordPrefixes :
            /\ OccursAt(w, s, i)
            /\ i + Len(w) <= Len(s)
            /\ s[i + Len(w)] \in Digits}

\* the prefix at position i of s and all the digits that follow it
RecordNumberAt(s, i) ==
    LET w == CHOOSE p \in RecordPrefixes : OccursAt(p, s, i)
        from == i + Len(w)
        stops == {j \in from..Len(s) : s[j] \notin Digits}
    IN  SubSeq(s, i, IF stops = {} THEN Len(s) ELSE Leftmost(stops) - 1)

\* INC, PRB, CHG or TASK and then digits, at least one, to the end
IsUpperRecordNumber(id) ==
    \E w \in {<<"I", "N", "C">>, <<"P", "R", "B">>, <<"C", "H", "G">>, <<"T", "A", "S", "K">>} :
        /\ Len(id) > Len(w)
        /\ SubSeq(id, 1, Len(w)) = w
        /\ \A k \in (Len(w) + 1)..Len(id) : id[k] \in Digits

\* C12: on success the record id is the first (leftmost) INC, PRB, CHG or TASK
\* with its digits, converted to upper case; it always is INC, PRB, CHG or TASK
\* followed by one or more digits; later identifiers are ignored.
C12_FirstRecordNumberInUpperCase ==
    Returned =>
        /\ result.value[1] =
               upper(RecordNumberAt(text, Leftmost(RecordNumberPositions(text))))
        /\ IsUpperRecordNumber(result.value[1])

(***************************************************************************)
(* C13                                                                     *)
(***************************************************************************)
\* a note marker with at least one character after it: in a command of one line
\* that character, at the least, is captured
NotePhraseFound(s) ==
    \E w \in NoteMarkers : \E i \in 1..Len(s) :
        OccursAt(w, s, i) /\ i + Len(w) <= Len(s)

\* the text the note pattern captured, trimmed
CapturedNote == strip(group1(locals.comment_match, text))

\* C13: comments and work_notes are never both present; when a note phrase with
\* captured text is found exactly one of them is set, to the captured text:
\* work_notes when the command holds work note, internal or private as a whole
\* word or phrase, comments otherwise; when no note phrase is found neither is
\* set.  In a command of one line a note phrase is found exactly when a note
\* marker has a character after it.
C13_OneNoteField ==
    Returned =>
        LET updates == result.value[2]
            fields  == DOMAIN updates
            found   == locals.comment_match.found
            private == \E w \in WorkNoteMarkers : OccursAsWord(w, text)
        IN  /\ ~("comments" \in fields /\ "work_notes" \in fields)
            /\ found => \E w \in NoteMarkers : Occurs(w, text)
            /\ NoLineBreak(text) => (found <=> NotePhraseFound(text))
            /\ (found /\ private) =>
                   /\ "work_notes" \in fields
                   /\ updates["work_notes"] = CapturedNote
            /\ (found /\ ~private) =>
                   /\ "comments" \in fields
                   /\ updates["comments"] = CapturedNote
            /\ ~found => ("comments" \notin fields /\ "work_notes" \notin fields)

\* a command whose work-note word stands outside the captured text: the note is
\* a work note
C13_Witness ==
    /\ Returned
    /\ locals.comment_match.found
    /\ "work_notes" \in DOMAIN result.value[2]
    /\ "comments" \notin DOMAIN result.value[2]
    /\ \A w \in WorkNoteMarkers : ~OccursAsWord(w, result.value[2]["work_notes"])

(***************************************************************************)
(* C14                                                                     *)
(***************************************************************************)
\* the clauses parse_search_query puts after the text-query clause of the search
\* term: those of the filter expression q past '123TEXTQUERY321=' and the term, all
\* the clauses of q when the term is empty
ClausesAfterTerm(q, term) ==
    IF term = <<>> THEN Clauses(q)
    ELSE LET n == Len(TextQueryOperator) + Len(term)
         IN  IF Len(q) <= n THEN <<>> ELSE Clauses(SubSeq(q, n + 2, Len(q)))

HoldsClause(cs, c) == \E k \in 1..Len(cs) : cs[k] = c

HoldsClauseOf(cs, field) == \E k \in 1..Len(cs) : startswith(cs[k], field)

\* one of the words stands in s as a whole word
WordIn(words, s) == \E w \in words : OccursAsWord(w, s)

\* the tier of the words that stand in s, by the order of the tiers
TierOf(s, tiers, Stands(_, _)) ==
    IF Stands(tiers[1][1], s) THEN tiers[1][2]
    ELSE IF Stands(tiers[2][1], s) THEN tiers[2][2]
    ELSE IF Stands(tiers[3][1], s) THEN tiers[3][2]
    ELSE <<>>

PriorityTiers ==
    << <<{<<"h", "i", "g", "h">>, <<"c", "r", "i", "t", "i", "c", "a", "l">>}, <<"1">>>>, <<{<<"m", "e", "d", "i", "u", "m">>}, <<"2">>>>,
       <<{<<"l", "o", "w">>}, <<"3">>>> >>

\* C14 as claimed: the word high or critical gives the clause priority=1,
\* otherwise medium gives priority=2, otherwise low gives priority=3, otherwise
\* the filter has no priority clause; the earlier tier wins wherever the words
\* stand.
C14_PriorityByWord ==
    pc = "done" =>
        LET p  == TierOf(text, PriorityTiers, WordIn)
            cs == ClausesAfterTerm(result.value.query, locals.search_term)
        IN  /\ p # <<>> => HoldsClause(cs, <<"p", "r", "i", "o", "r", "i", "t", "y", "=">> \o p)
            /\ p = <<>> => ~HoldsClauseOf(cs, <<"p", "r", "i", "o", "r", "i", "t", "y", "=">>)

\* one of the words stands in s as a whole word, with whitespace and then the
\* whole word priority after it
WordBeforePriority(words, s) ==
    \E w \in words : \E i \in 1..Len(s) : \E j \in (i + Len(w) + 1)..Len(s) :
        /\ OccursAt(w, s, i)
        /\ WordBoundary(s, i)
        /\ \A k \in (i + Len(w))..(j - 1) : s[k] \in Whitespace
        /\ OccursAt(<<"p", "r", "i", "o", "r", "i", "t", "y">>, s, j)
        /\ WordBoundary(s, j + 8)

\* C14 as amended: the word high or critical with whitespace and the word
\* priority after it gives the clause priority=1, otherwise medium so followed
\* gives priority=2, otherwise low so followed gives priority=3; the clause comes
\* right after the text-query clause and no other priority clause follows the
\* text-query clause; otherwise no priority clause follows it.  The earlier tier
\* wins wherever the words stand.
C14_PriorityByPhrase ==
    pc = "done" =>
        LET p  == TierOf(text, PriorityTiers, WordBeforePriority)
            cs == ClausesAfterTerm(result.value.query, locals.search_term)
        IN  /\ locals.priority = p
            /\ p # <<>> =>
                   /\ cs # <<>>
                   /\ cs[1] = <<"p", "r", "i", "o", "r", "i", "t", "y", "=">> \o p
                   /\ ~HoldsClauseOf(Tail(cs), <<"p", "r", "i", "o", "r", "i", "t", "y", "=">>)
            /\ p = <<>> => ~HoldsClauseOf(cs, <<"p", "r", "i", "o", "r", "i", "t", "y", "=">>)

\* low priority stands before critical priority in the text, and the clause is
\* priority=1
C14_Witness ==
    /\ Returned
    /\ \E i, j \in 1..Len(text) :
           i < j /\ OccursAt(<<"l", "o", "w", " ", "p", "r", "i", "o", "r", "i", "t", "y">>, text, i)
                 /\ OccursAt(<<"c", "r", "i", "t", "i", "c", "a", "l", " ", "p", "r", "i", "o", "r", "i", "t", "y">>, text, j)
    /\ HoldsClause(ClausesAfterTerm(result.value.query, locals.search_term),
                   <<"p", "r", "i", "o", "r", "i", "t", "y", "=", "1">>)

(***************************************************************************)
(* C15                                                                     *)
(***************************************************************************)
StateTiers ==
    << <<{<<"n", "e", "w">>, <<"o", "p", "e", "n">>}, <<"1">>>>, <<{<<"i", "n", " ", "p", "r", "o", "g", "r", "e", "s", "s">>, <<"w", "o", "r", "k", "i", "n", "g">>}, <<"2">>>>,
       <<{<<"c", "l", "o", "s", "e", "d">>, <<"r", "e", "s", "o", "l", "v", "e", "d">>}, <<"7">>>> >>

\* C15: the whole word new or open gives the clause state=1, otherwise in
\* progress or working gives state=2, otherwise closed or resolved gives state=7,
\* otherwise there is no state clause; the earlier tier wins wherever the words
\* stand.
C15_StateByWord ==
    pc = "done" =>
        LET st == TierOf(text, StateTiers, WordIn)
            cs == ClausesAfterTerm(result.value.query, locals.search_term)
        IN  /\ locals.state = st
            /\ st # <<>> =>
                   /\ cs # <<>>
                   /\ cs[Len(cs)] = <<"s", "t", "a", "t", "e", "=">> \o st
                   /\ ~HoldsClauseOf(SubSeq(cs, 1, Len(cs) - 1), <<"s", "t", "a", "t", "e", "=">>)
            /\ st = <<>> => ~HoldsClauseOf(cs, <<"s", "t", "a", "t", "e", "=">>)

\* resolved stands before new in the text, and the clause is state=1
C15_Witness ==
    /\ Returned
    /\ \E i, j \in 1..Len(text) :
           i < j /\ OccursAt(<<"r", "e", "s", "o", "l", "v", "e", "d">>, text, i) /\ OccursAt(<<"n", "e", "w">>, text, j)
    /\ HoldsClause(ClausesAfterTerm(result.value.query, locals.search_term),
                   <<"s", "t", "a", "t", "e", "=", "1">>)

(***************************************************************************)
(* C16                                                                     *)
(***************************************************************************)
ResolvedWords == {<<"r", "e", "s", "o", "l", "v", "e">>, <<"r", "e", "s", "o", "l", "v", "e", "d">>, <<"f", "i", "x">>, <<"f", "i", "x", "e", "d">>}

ClosedWords == {<<"c", "l", "o", "s", "e">>, <<"c", "l", "o", "s", "e", "d">>}

Clause(field, value) == IF value = <<>> THEN <<>> ELSE field \o value

\* two runs of clauses with one '^' between them, when neither is empty
Then(a, b) == IF a = <<>> THEN b ELSE IF b = <<>> THEN a ELSE a \o <<"^">> \o b

\* C17: the query is the present clauses in the order text-query clause
\* '123TEXTQUERY321=<term>', priority=<n>, state=<n>, with exactly one '^' between
\* adjacent clauses and none before the first or after the last; an absent clause
\* is left out; the order is the same wherever the phrases stand in the input.
C17_ClausesInFixedOrder ==
    pc = "done" =>
        LET q == result.value.query
        IN  /\ q = Then(Then(Clause(TextQueryOperator, locals.search_term),
                             Clause(<<"p", "r", "i", "o", "r", "i", "t", "y", "=">>, locals.priority)),
                        Clause(<<"s", "t", "a", "t", "e", "=">>, locals.state))
            /\ q # <<>> => q[1] # "^"
            /\ (q # <<>> /\ (locals.priority # <<>> \/ locals.state # <<>>)) =>
                   q[Len(q)] # "^"

\* the state word stands first in the text, the priority phrase last, and the
\* query has the three clauses in the fixed order
C17_Witness ==
    /\ Returned
    /\ OccursAt(<<" ", "o", "p", "e", "n">>, text, 1)
    /\ Occurs(<<"h", "i", "g", "h", " ", "p", "r", "i", "o", "r", "i", "t", "y">>, text)
    /\ locals.search_term # <<>>
    /\ result.value.query =
           TextQueryOperator \o locals.search_term \o <<"^", "p", "r", "i", "o", "r", "i", "t", "y", "=", "1", "^", "s", "t", "a", "t", "e", "=", "1">>

(***************************************************************************)
(* C18                                                                     *)
(***************************************************************************)
Verbs == {<<"f", "i", "n", "d">>, <<"s", "e", "a", "r", "c", "h", " ", "f", "o", "r">>, <<"s", "h", "o", "w">>, <<"g", "e", "t">>, <<"l", "i", "s", "t">>, <<"d", "i", "s", "p", "l", "a", "y">>}

Quantifiers == {<<"a", "l", "l">>, <<"a", "n", "y">>}

\* the first position of s from i on that holds no whitespace, Len(s) + 1 when
\* there is none
PastSpaces(s, i) ==
    LET at == {j \in i..Len(s) : s[j] \notin Whitespace}
    IN  IF at = {} THEN Len(s) + 1 ELSE Leftmost(at)

\* the first position of s from i on that holds no word character
PastWord(s, i) ==
    LET at == {j \in i..Len(s) : s[j] \notin WordChars}
    IN  IF at = {} THEN Len(s) + 1 ELSE Leftmost(at)

\* the position of the noun of '<verb> [all|any] <noun> R', 0 when s has not
\* this form
NounAt(s) ==
    LET verbs == {v \in Verbs : OccursAt(v, s, 1)}
    IN  IF verbs = {} THEN 0
        ELSE LET a == Len(CHOOSE v \in verbs : TRUE) + 1
                 b == PastSpaces(s, a)
                 quantified ==
                     /\ \E w \in Quantifiers : OccursAt(w, s, b)
                     /\ PastSpaces(s, b + 3) > b + 3
                 c == IF quantified THEN PastSpaces(s, b + 3) ELSE b
             IN  IF b > a /\ c <= Len(s) /\ PastWord(s, c) > c THEN c ELSE 0

\* the remainder R: all the text after the noun
Remainder(s) == SubSeq(s, PastWord(s, NounAt(s)), Len(s))

\* C18: a text without about, related to, regarding, concerning, with or
\* containing that has the form '<verb> [all|any] <noun> R' has the search term R
\* trimmed, all the text after the noun; when nothing follows the noun the term
\* is empty and the query has no text-query clause.
C18_TermIsRemainder ==
    (pc = "done" /\ (\A w \in AboutWords : ~Occurs(w, text)) /\ NounAt(text) # 0) =>
        LET R == strip(Remainder(text))
        IN  /\ locals.search_term = R
            /\ R = <<>> => ~HasTextClause(result.value.query)
            /\ R # <<>> => startswith(result.value.query, TextQueryOperator \o R)

(***************************************************************************)
(* C19                                                                     *)
(***************************************************************************)
\* t stands in s, character for character
StandsIn(t, s) ==
    \E i \in 1..(Len(s) - Len(t) + 1) : SubSeq(s, i, i + Len(t) - 1) = t

\* C19: the table, the priority and the state are computed from the whole text
\* and not from what the search-term step left: the table is the one the table
\* step finds before any term is extracted, the priority and the state are the
\* tiers of the whole text; a priority or state phrase inside the search term
\* still gives its clause, and the term stays in the text-query clause as it
\* stands in the text.
C19_TermLeavesOthersAlone ==
    pc = "done" =>
        LET term == locals.search_term
            cs   == ClausesAfterTerm(result.value.query, term)
        IN  /\ result.value.table = ExtractTable(text, SearchFrame).table
            /\ locals.priority = TierOf(text, PriorityTiers, WordBeforePriority)
            /\ locals.state = TierOf(text, StateTiers, WordIn)
            /\ term # <<>> =>
                   /\ StandsIn(term, text)
                   /\ startswith(result.value.query, TextQueryOperator \o term)
            /\ (\E k \in 1..3 : WordBeforePriority(PriorityTiers[k][1], term)) =>
                   HoldsClauseOf(cs, <<"p", "r", "i", "o", "r", "i", "t", "y", "=">>)
            /\ (\E k \in 1..3 : WordIn(StateTiers[k][1], term)) =>
                   HoldsClauseOf(cs, <<"s", "t", "a", "t", "e", "=">>)

\* the priority phrase lies inside the search term: the term keeps it and the
\* clause priority=1 follows
C19_Witness ==
    /\ Returned
    /\ WordBeforePriority({<<"h", "i", "g", "h">>}, locals.search_term)
    /\ result.value.query =
           TextQueryOperator \o locals.search_term \o <<"^", "p", "r", "i", "o", "r", "i", "t", "y", "=", "1">>

(***************************************************************************)
(* C20  natural_language_update writes only after the command parsed and   *)
(* the incident was looked up with success; the write goes to the sys_id   *)
(* of the record found and carries the parsed fields; when the command has *)
(* no record number, when its record number is a PRB, CHG or TASK number   *)
(* or when the lookup finds no incident, the call ends with an error       *)
(* result and nothing is written; no call writes twice.                    *)
(***************************************************************************)
Requests(method) ==
    {i \in 1..Len(http) : http[i].kind = "request" /\ http[i].method = method}

\* the answer to the request at position i, when it has come
Answered(i) == i < Len(http) /\ http[i + 1].kind = "answer"

\* the lookup at position i found a record
FoundBy(i) ==
    /\ Answered(i)
    /\ http[i + 1].answer.status = "ok"
    /\ FirstRecord(http[i + 1].answer.body) # None

NoIncidentFound ==
    \E i \in Requests("GET") :
        /\ Answered(i)
        /\ http[i + 1].answer.status = "ok"
        /\ FirstRecord(http[i + 1].answer.body) = None

\* the record number of the command, as written there
NumberInCommand == RecordNumberAt(text, Leftmost(RecordNumberPositions(text)))

NotAnIncidentNumber ==
    /\ HasRecordNumber(text)
    /\ \E p \in {<<"p", "r", "b">>, <<"c", "h", "g">>, <<"t", "a", "s", "k">>} : OccursAt(p, NumberInCommand, 1)

IsErrorResult(r) == ~r.raised /\ DOMAIN r.value.json = {"error"}

C20_WriteAfterLookup ==
    /\ Cardinality(Requests("PUT")) <= 1
    /\ \A w \in Requests("PUT") :
           /\ HasRecordNumber(text)
           /\ ~parse_update_command(text).raised
           /\ http[w].table = <<"i", "n", "c", "i", "d", "e", "n", "t">>
           /\ http[w].data = parse_update_command(text).value[2]
           /\ \E g \in Requests("GET") :
                  /\ g < w
                  /\ http[g].query = <<"n", "u", "m", "b", "e", "r", "=">> \o parse_update_command(text).value[1]
                  /\ FoundBy(g)
                  /\ "sys_id" \in DOMAIN FirstRecord(http[g + 1].answer.body).value
                  /\ http[w].sys_id = FirstRecord(http[g + 1].answer.body).value["sys_id"]
    /\ pc = "done" /\ (~HasRecordNumber(text) \/ NotAnIncidentNumber \/ NoIncidentFound)
           => IsErrorResult(result) /\ Requests("PUT") = {}

\* a call that wrote the state and a comment to the incident it found
C20_Witness ==
    /\ pc = "done"
    /\ Cardinality(Requests("PUT")) = 1
    /\ \E w \in Requests("PUT") :
           /\ DOMAIN http[w].data = {"state", "comments"}
           /\ Answered(w)
           /\ http[w + 1].answer.status = "ok"
    /\ ~IsErrorResult(result)

(***************************************************************************)
(* C21                                                                     *)
(***************************************************************************)
CloseNote == <<"c", "l", "o", "s", "e", " ", "n", "o", "t", "e">>

CloseNotePositions(s) == {i \in 1..Len(s) : OccursAt(CloseNote, s, i)}

\* the only note or resolution marker of s is one 'close note': no resolution
\* marker stands elsewhere, and the only note marker is the note inside it
OnlyCloseNote(s) ==
    /\ Cardinality(CloseNotePositions(s)) = 1
    /\ LET p == Leftmost(CloseNotePositions(s))
       IN  /\ \A w \in ResolutionMarkers : \A i \in 1..Len(s) :
                  OccursAt(w, s, i) => (w = CloseNote /\ i = p)
           /\ \A w \in NoteMarkers : \A i \in 1..Len(s) :
                  OccursAt(w, s, i) => (w = <<"n", "o", "t", "e">> /\ i = p + Len(<<"c", "l", "o", "s", "e", " ">>))

\* the X of '... close note: X': what follows the marker and its plural s, without
\* the colon, up to the sentence terminator, trimmed
C21_X(s) ==
    LET a == Leftmost(CloseNotePositions(s)) + Len(CloseNote)
        b == IF a <= Len(s) /\ Fold(s[a]) = "s" THEN a + 1 ELSE a
    IN  NoteText(SubSeq(s, b, Len(s)))

NoteFields == {"comments", "work_notes", "close_notes"}

\* C22: every comments, work_notes or close_notes value of a result is a
\* non-empty string that neither begins nor ends with whitespace.
C22_NotesNonEmptyTrimmed ==
    Returned =>
        \A k \in NoteFields \cap DOMAIN result.value[2] :
            LET v == result.value[2][k]
            IN  /\ v # <<>>
                /\ v[1] \notin Whitespace
                /\ v[Len(v)] \notin Whitespace

(***************************************************************************)
(* C23                                                                     *)
(***************************************************************************)
\* the stored expiry is a time, and the clock of the call is past it
ExpiryPassed(call) ==
    /\ call.before.token_expiry.type # "NoneType"
    /\ call.at > call.before.token_expiry.t

\* the token the endpoint handed out during the call
ObtainedBy(i) ==
    LET answers == {k \in 1..Len(http) :
                       /\ http[k].kind = "answer"
                       /\ Cardinality({j \in 1..k : http[j].kind = "request"})
                              = Cardinality({j \in 1..i : calls[j].requests = 1})}
    IN  http[Leftmost(answers)].answer.body["access_token"]

\* C23: the first get_headers call on an object without a token sends one
\* request to the token endpoint and, when the endpoint hands out a token,
\* returns its Bearer header; a later call on an object that has a token returns
\* the Bearer header of the current token, without an error unless the endpoint
\* itself fails, and sends a request only when the stored expiry has passed;
\* the call after a successful refresh does not fail before it reaches the
\* endpoint.
C23_HeadersAfterRefresh ==
    \A i \in 1..Len(calls) :
        calls[i].ended =>
            LET call == calls[i]
            IN  /\ (i = 1 /\ call.before.token.none) =>
                       /\ call.requests = 1
                       /\ call.answered = "ok" =>
                              call.outcome = Return(Bearer(Some(ObtainedBy(i))))
                /\ (i > 1 /\ ~call.before.token.none) =>
                       /\ call.requests = 1 => ExpiryPassed(call)
                       /\ call.requests = 0 =>
                              /\ ~call.outcome.raised
                              /\ call.outcome = Return(Bearer(call.before.token))
                       /\ call.answered = "ok" =>
                              call.outcome = Return(Bearer(Some(ObtainedBy(i))))
                /\ (i > 1 /\ calls[i - 1].answered = "ok") =>
                       ~(call.outcome.raised /\ call.requests = 0)

(***************************************************************************)
(* C24                                                                     *)
(***************************************************************************)
\* the positions in http of the writes caller c sent
WritesOf(c) ==
    {i \in 1..Len(http) :
        /\ http[i].kind = "request"
        /\ http[i].caller = c
        /\ http[i].method \in {"POST", "PUT"}}

\* the records the lookup of caller c was answered with
FoundBefore(c) ==
    LET gets == {i \in 1..Len(http) :
                    /\ http[i].kind = "request"
                    /\ http[i].caller = c
                    /\ http[i].method = "GET"}
    IN  http[Leftmost(gets) + 1].answer.body["result"]

\* the records of the backend's table with the name
Named(table, name) ==
    {i \in 1..Len(backend) : backend[i].table = table /\ backend[i].name = name}

\* the backend had a record of the name before the calls
NamedAtFirst(table, name) == \E i \in Named(table, name) : backend[i].sys_id = <<"i", "d", "0">>

\* C24: a call of update_script sends at most one write, and exactly one when it
\* returns: a create when its lookup found no record, otherwise an update of the
\* first record found; and when all the concurrent calls have the same name and
\* type and the backend had no such record at first, the backend never holds
\* more than one record of that name.
C24_OneWriteOneRecord ==
    /\ \A c \in Callers :
           /\ Cardinality(WritesOf(c)) <= 1
           /\ (calls[c].ended /\ ~calls[c].result.raised) =>
                  /\ Cardinality(WritesOf(c)) = 1
                  /\ LET w == http[Leftmost(WritesOf(c))]
                     IN  /\ w.table = calls[c].script_update.type
                         /\ IF FoundBefore(c) = <<>>
                            THEN /\ w.method = "POST"
                                 /\ w.data["name"] = calls[c].script_update.name
                            ELSE /\ w.method = "PUT"
                                 /\ w.sys_id = FoundBefore(c)[1].sys_id
    /\ \A n \in ScriptNames : \A t \in ScriptTypes :
           (/\ \A c \in Callers : /\ calls[c].script_update.name = n
                                  /\ calls[c].script_update.type = t
            /\ ~NamedAtFirst(t, n)) =>
               Cardinality(Named(t, n)) <= 1

====
